---- MODULE Spec2Model ----
(***************************************************************************)
(* Concordia-MCP: the wallet analytics pipeline.                           *)
(*   src/src/analyzers/patternAnalyzer.ts    analyzeTransactionPatterns    *)
(*   src/src/analyzers/recommendStrategy.ts  recommendStrategies           *)
(*   src/src/analyzers/defiAnalyzer.ts       analyzeDeFiPositions          *)
(*                                                                         *)
(* Numbers.  Timestamps are integers (epoch milliseconds).  The doubles    *)
(* the code computes are kept exact: a mean is a fraction num/den, a       *)
(* standard deviation is kept as its square (the variance, a fraction),    *)
(* and the quotient standardDeviation / mean is an IEEE value that is      *)
(* either finite (kept as the fraction of its square), NaN (0/0) or        *)
(* +Infinity (x/0, x > 0).  Confidence levels are written in tenths        *)
(* (0.7 is 7).                                                             *)
(***************************************************************************)
EXTENDS Integers, Sequences, FiniteSets

VARIABLES
    activities,       \* the wallet's activity list, the argument of both analyzers
    fetched,          \* number of activities appended to the initial history
    call,             \* the analyzer the current request has run, or "none"
    profile,          \* the riskProfile of the profile argument of recommendStrategies
    patterns,         \* return value of analyzeTransactionPatterns
    dcaLocals,        \* locals of detectDCAPattern in that call
    recommendations,  \* outcome of recommendStrategies: returned list or a throw
    cache,            \* walletCache: the entry of each wallet address
    now,              \* the clock read by Date.now()
    lastCall,         \* the latest analyzeDeFiPositions call: its wallet, the cache
                      \* it found, what it returned and whether it called set
    prevCall,         \* the analyzeDeFiPositions call before that one
    lookups,          \* the identifyProtocol calls made: argument and result
    formatCall,       \* the formatter call made: its arguments, and the positions
                      \* argument and the cache as the call left them
    report            \* the report that call returned

analyzerVars == <<activities, fetched, call, profile, patterns, dcaLocals, recommendations>>
defiVars == <<cache, now, lastCall, prevCall>>
formatVars == <<formatCall, report>>
vars == <<analyzerVars, defiVars, lookups, formatVars>>

(***************************************************************************)
(* Bounds                                                                  *)
(***************************************************************************)
MaxFetched == 4
\* clock ticks of half a day
MaxTicks == 1
\* Math.random() returns one of 0/RandomSteps .. (RandomSteps-1)/RandomSteps
RandomSteps == 2
\* identifyProtocol calls in a run
MaxLookups == 2
\* the most programs a rendered transaction names
MaxPrograms == 4

(***************************************************************************)
(* Generic helpers                                                         *)
(***************************************************************************)
Range(s) == {s[i] : i \in 1..Len(s)}

RECURSIVE SumSeq(_)
SumSeq(s) == IF s = <<>> THEN 0 ELSE Head(s) + SumSeq(Tail(s))

RECURSIVE SumSquares(_)
SumSquares(s) == IF s = <<>> THEN 0 ELSE Head(s) * Head(s) + SumSquares(Tail(s))

RECURSIVE GCD(_, _)
GCD(a, b) == IF b = 0 THEN a ELSE GCD(b, a % b)

\* an absent (undefined) string-valued field or argument
Absent == "<undefined>"

(***************************************************************************)
(* Known programs and the protocol identifier                              *)
(***************************************************************************)
\* variant: the Orca entry repeats the Raydium address
KNOWN_PROGRAMS_DuplicateAddress ==
    [ RAYDIUM_SWAP             |-> "675kPX9MHTjS2zt1qfr1NYHuzeLXfQM9H24wFSUt1Mp8",
      ORCA_SWAP                |-> "675kPX9MHTjS2zt1qfr1NYHuzeLXfQM9H24wFSUt1Mp8",
      JUPITER_AGGREGATOR       |-> "JUP6LkbZbjS1jKKwapdHNy74zcZ3tLUZoi5QNyVTaV4",
      SERUM_DEX_V3             |-> "9xQeWvG816bUx9EPjHmaT23yvVM2ZWbrrpZb9PusVFin",
      FLUXBEAM                 |-> "FLUXubRmkEi2q6K3Y9kBPg9248ggaZVsoSFhtJHSrm1X",
      MARINADE_STAKING         |-> "MarBmsSgKXdrN1egZf5sqe1TMai9K1rChYNDJgjq7aD",
      SOLEND                   |-> "So1endDq2YkqhipRh3WViPa8hdiSpxWy6z3Z6tMCpAo",
      MANGO_MARKETS            |-> "mv3ekLzLbnVPNxjSKvqBpU3ZeZXPQdEC3bp5MDEBG68",
      TOKEN_PROGRAM            |-> "TokenkegQfeZyiNwAJbNbGKPFXCWuBvf9Ss623VQ5DA",
      ASSOCIATED_TOKEN_PROGRAM |-> "ATokenGPvbdGVxr1b2hvZbsiqW5xWH25efTNsLJA8knL",
      METAPLEX                 |-> "metaqbxxUerdq28cj1RbAWkYQm3ybzjb6a8bt518x1s" ]

KNOWN_PROGRAMS ==
    [ RAYDIUM_SWAP             |-> "675kPX9MHTjS2zt1qfr1NYHuzeLXfQM9H24wFSUt1Mp8",
      ORCA_SWAP                |-> "9W959DqEETiGZocYWCQPaJ6sBmUzgfxXfqGeTEdp3aQP",
      JUPITER_AGGREGATOR       |-> "JUP6LkbZbjS1jKKwapdHNy74zcZ3tLUZoi5QNyVTaV4",
      SERUM_DEX_V3             |-> "9xQeWvG816bUx9EPjHmaT23yvVM2ZWbrrpZb9PusVFin",
      FLUXBEAM                 |-> "FLUXubRmkEi2q6K3Y9kBPg9248ggaZVsoSFhtJHSrm1X",
      MARINADE_STAKING         |-> "MarBmsSgKXdrN1egZf5sqe1TMai9K1rChYNDJgjq7aD",
      SOLEND                   |-> "So1endDq2YkqhipRh3WViPa8hdiSpxWy6z3Z6tMCpAo",
      MANGO_MARKETS            |-> "mv3ekLzLbnVPNxjSKvqBpU3ZeZXPQdEC3bp5MDEBG68",
      TOKEN_PROGRAM            |-> "TokenkegQfeZyiNwAJbNbGKPFXCWuBvf9Ss623VQ5DA",
      ASSOCIATED_TOKEN_PROGRAM |-> "ATokenGPvbdGVxr1b2hvZbsiqW5xWH25efTNsLJA8knL",
      METAPLEX                 |-> "metaqbxxUerdq28cj1RbAWkYQm3ybzjb6a8bt518x1s" ]

\* identifyProtocol of services/transaction.ts, by its contract: the key whose
\* address matches exactly, "Unknown" for every other or absent input
identifyProtocol(programId) ==
    IF \E k \in DOMAIN KNOWN_PROGRAMS : KNOWN_PROGRAMS[k] = programId
    THEN CHOOSE k \in DOMAIN KNOWN_PROGRAMS : KNOWN_PROGRAMS[k] = programId
    ELSE "Unknown"

(***************************************************************************)
(* patternAnalyzer.ts                                                      *)
(***************************************************************************)
MINIMUM_TRANSACTIONS == 5
MINIMUM_SWAPS == 3
MINIMUM_STAKING_ACTIONS == 3
\* 0.3, in tenths
DCA_DEVIATION_THRESHOLD == 3

CONFIDENCE == [LOW |-> 5, MEDIUM |-> 7, HIGH |-> 8, VERY_HIGH |-> 9]

PATTERNS ==
    [ INSUFFICIENT_DATA |-> [patternType |-> "insufficient_data", confidence |-> 0],
      GENERAL           |-> [patternType |-> "general", confidence |-> CONFIDENCE.LOW],
      DCA               |-> [patternType |-> "dca", confidence |-> CONFIDENCE.MEDIUM],
      LENDING           |-> [patternType |-> "lending_active", confidence |-> CONFIDENCE.VERY_HIGH],
      YIELD_FARMING     |-> [patternType |-> "yield_farming", confidence |-> CONFIDENCE.HIGH] ]

\* activities.reduce(...): one group per type that occurs, input order kept
groupActivitiesByType(acts) ==
    [t \in {a.type : a \in Range(acts)} |-> SelectSeq(acts, LAMBDA a : a.type = t)]

\* groups[type]: the group, or undefined when the type never occurred
GroupOf(groups, type) ==
    IF type \in DOMAIN groups
    THEN [defined |-> TRUE, value |-> groups[type]]
    ELSE [defined |-> FALSE, value |-> <<>>]

\* variant: one Lending activity is not enough
hasActivities_MoreThanOne(group) == group.defined /\ Len(group.value) > 1

hasActivities(group) == group.defined /\ Len(group.value) > 0

\* variant: the minimum itself does not count
hasMinimumActivities_Strict(group, minimum) == group.defined /\ Len(group.value) > minimum

hasMinimumActivities(group, minimum) == group.defined /\ Len(group.value) >= minimum

\* Array.prototype.sort with (a, b) => b.timestamp - a.timestamp: stable,
\* newest first
RECURSIVE InsertDescending(_, _)
InsertDescending(sorted, a) ==
    IF sorted = <<>> THEN <<a>>
    ELSE IF Head(sorted).timestamp >= a.timestamp
         THEN <<Head(sorted)>> \o InsertDescending(Tail(sorted), a)
         ELSE <<a>> \o sorted

RECURSIVE SortDescending(_)
SortDescending(s) ==
    IF s = <<>> THEN <<>>
    ELSE InsertDescending(SortDescending(SubSeq(s, 1, Len(s) - 1)), s[Len(s)])

\* the loop of detectDCAPattern: sortedSwaps[i-1].timestamp - sortedSwaps[i].timestamp
TimeGaps(sortedSwaps) ==
    [i \in 1..(Len(sortedSwaps) - 1) |-> sortedSwaps[i].timestamp - sortedSwaps[i + 1].timestamp]

\* variant: sample variance, divided by n - 1
calculateStats_SampleVariance(values) ==
    LET n == Len(values)
        s == SumSeq(values)
        q == SumSquares(values)
    IN  [ mean     |-> [num |-> s, den |-> n],
          variance |-> [num |-> n * q - s * s, den |-> n * (n - 1)] ]

\* mean = sum / n; variance = sum((v - mean)^2) / n = (n * sum(v^2) - sum^2) / n^2;
\* standardDeviation = sqrt(variance), kept as its square
calculateStats(values) ==
    LET n == Len(values)
        s == SumSeq(values)
        q == SumSquares(values)
    IN  [ mean     |-> [num |-> s, den |-> n],
          variance |-> [num |-> n * q - s * s, den |-> n * n] ]

\* standardDeviation / mean in IEEE arithmetic; the square of a finite
\* quotient is variance / mean^2, with the common factor of the two
\* denominators cancelled
Divide(stats) ==
    IF stats.mean.num = 0
    THEN IF stats.variance.num = 0
         THEN [kind |-> "NaN", sqNum |-> 0, sqDen |-> 1]
         ELSE [kind |-> "Infinity", sqNum |-> 0, sqDen |-> 1]
    ELSE LET meanDenSq == stats.mean.den * stats.mean.den
             g == GCD(meanDenSq, stats.variance.den)
         IN  [kind |-> "finite",
              sqNum |-> stats.variance.num * (meanDenSq \div g),
              sqDen |-> (stats.variance.den \div g) * stats.mean.num * stats.mean.num]

\* x < threshold/10 for x >= 0: false for NaN and Infinity, else
\* x^2 < threshold^2 / 100, i.e. sqNum < threshold^2 * sqDen / 100, the
\* right-hand side taken as quotient and remainder
LessThan(x, threshold) ==
    /\ x.kind = "finite"
    /\ LET t2 == threshold * threshold
           whole == t2 * (x.sqDen \div 100) + (t2 * (x.sqDen % 100)) \div 100
           rest == (t2 * (x.sqDen % 100)) % 100
       IN  \/ x.sqNum < whole
           \/ x.sqNum = whole /\ rest > 0

NotEvaluated ==
    [ evaluated |-> FALSE, timeGaps |-> <<>>,
      mean |-> [num |-> 0, den |-> 1],
      variationCoefficient |-> [kind |-> "none", sqNum |-> 0, sqDen |-> 1] ]

\* the locals of detectDCAPattern past the early return
DCALocals(swaps) ==
    IF Len(swaps) < MINIMUM_SWAPS THEN NotEvaluated
    ELSE LET timeGaps == TimeGaps(SortDescending(swaps))
             stats == calculateStats(timeGaps)
         IN  [ evaluated |-> TRUE, timeGaps |-> timeGaps,
               mean |-> stats.mean,
               variationCoefficient |-> Divide(stats) ]

detectDCAPattern(swaps, pats) ==
    LET locals == DCALocals(swaps)
    IN  IF /\ locals.evaluated
           /\ LessThan(locals.variationCoefficient, DCA_DEVIATION_THRESHOLD)
        THEN Append(pats, PATTERNS.DCA)
        ELSE pats

\* lines 62-77: the three detectors, in the order they push
DetectedPatterns(acts) ==
    LET activityGroups == groupActivitiesByType(acts)
        swapGroup == GroupOf(activityGroups, "Swap")
        p1 == detectDCAPattern(IF swapGroup.defined THEN swapGroup.value ELSE <<>>, <<>>)
        p2 == IF hasActivities(GroupOf(activityGroups, "Lending"))
              THEN Append(p1, PATTERNS.LENDING) ELSE p1
    IN  IF hasMinimumActivities(GroupOf(activityGroups, "Staking"),
                                MINIMUM_STAKING_ACTIONS)
        THEN Append(p2, PATTERNS.YIELD_FARMING) ELSE p2

\* variant: the early return is taken below 4 entries
analyzeTransactionPatterns_OffByOne(acts) ==
    IF Len(acts) < MINIMUM_TRANSACTIONS - 1 THEN <<PATTERNS.INSUFFICIENT_DATA>>
    ELSE LET detected == DetectedPatterns(acts)
         IN  IF Len(detected) > 0 THEN detected ELSE <<PATTERNS.GENERAL>>

\* variant: no fallback when nothing was detected
analyzeTransactionPatterns_NoFallback(acts) ==
    IF Len(acts) < MINIMUM_TRANSACTIONS THEN <<PATTERNS.INSUFFICIENT_DATA>>
    ELSE DetectedPatterns(acts)

\* variant: general is pushed after the detected patterns
analyzeTransactionPatterns_AlwaysGeneral(acts) ==
    IF Len(acts) < MINIMUM_TRANSACTIONS THEN <<PATTERNS.INSUFFICIENT_DATA>>
    ELSE Append(DetectedPatterns(acts), PATTERNS.GENERAL)

analyzeTransactionPatterns(acts) ==
    IF Len(acts) < MINIMUM_TRANSACTIONS THEN <<PATTERNS.INSUFFICIENT_DATA>>
    ELSE LET detected == DetectedPatterns(acts)
         IN  IF Len(detected) > 0 THEN detected ELSE <<PATTERNS.GENERAL>>

\* the locals of the detectDCAPattern call made by analyzeTransactionPatterns
AnalyzeDCALocals(acts) ==
    IF Len(acts) < MINIMUM_TRANSACTIONS THEN NotEvaluated
    ELSE LET swapGroup == GroupOf(groupActivitiesByType(acts), "Swap")
         IN  DCALocals(IF swapGroup.defined THEN swapGroup.value ELSE <<>>)

(***************************************************************************)
(* recommendStrategy.ts                                                    *)
(***************************************************************************)
\* the strategy catalog; each entry is one object, told apart by its name
STRATEGIES ==
    [ BEGINNER           |-> [strategy |-> "Start DeFi", riskLevel |-> "low"],
      STAKING_SOL        |-> [strategy |-> "Staking SOL", riskLevel |-> "low"],
      LIQUID_STAKING     |-> [strategy |-> "Liquid Staking", riskLevel |-> "low"],
      SUPPLY_STABLECOINS |-> [strategy |-> "Supply Stablecoins", riskLevel |-> "medium"],
      DIVERSIFIED_LP     |-> [strategy |-> "Diversified LP", riskLevel |-> "medium"],
      LEVERAGED_FARMING  |-> [strategy |-> "Leveraged Farming", riskLevel |-> "high"],
      PERPETUAL_TRADING  |-> [strategy |-> "Perpetual Trading", riskLevel |-> "high"] ]

PROTOCOL_STRATEGY_MAP ==
    [ MARINADE_STAKING |-> STRATEGIES.LIQUID_STAKING,
      SOLEND           |-> STRATEGIES.SUPPLY_STABLECOINS,
      MANGO_MARKETS    |-> STRATEGIES.PERPETUAL_TRADING ]

RISK_PROFILE_STRATEGIES ==
    [ conservative |-> <<STRATEGIES.STAKING_SOL, STRATEGIES.LIQUID_STAKING>>,
      moderate     |-> <<STRATEGIES.SUPPLY_STABLECOINS, STRATEGIES.DIVERSIFIED_LP>>,
      aggressive   |-> <<STRATEGIES.LEVERAGED_FARMING, STRATEGIES.PERPETUAL_TRADING>> ]

\* RISK_PROFILE_STRATEGIES is an object literal: a key that is not its own
\* is looked up on Object.prototype, whose members are functions or objects
ObjectPrototypeKeys ==
    { "constructor", "toString", "toLocaleString", "valueOf", "hasOwnProperty",
      "isPrototypeOf", "propertyIsEnumerable", "__proto__",
      "__defineGetter__", "__defineSetter__", "__lookupGetter__", "__lookupSetter__" }

\* RISK_PROFILE_STRATEGIES[riskProfile]
RiskProfileLookup(riskProfile) ==
    IF riskProfile \in DOMAIN RISK_PROFILE_STRATEGIES
    THEN [kind |-> "array", value |-> RISK_PROFILE_STRATEGIES[riskProfile]]
    ELSE IF riskProfile \in ObjectPrototypeKeys
         THEN [kind |-> "inherited", value |-> <<>>]
         ELSE [kind |-> "undefined", value |-> <<>>]

\* the protocol names of the activities whose programId is set and not "Unknown"
extractUsedProtocols(acts) ==
    { identifyProtocol(a.programId) :
        a \in {b \in Range(acts) : b.programId # Absent /\ b.programId # ""
                                    /\ b.programId # "Unknown"} }

\* variant: a strategy is dropped as soon as any mapped protocol is used
RECURSIVE FilterStrategies_AnyUsedProtocol(_, _)
FilterStrategies_AnyUsedProtocol(baseStrategies, usedProtocols) ==
    IF baseStrategies = <<>> THEN <<>>
    ELSE LET strategy == Head(baseStrategies)
             shouldExclude ==
                 \E protocol \in DOMAIN PROTOCOL_STRATEGY_MAP :
                     protocol \in usedProtocols
             rest == FilterStrategies_AnyUsedProtocol(Tail(baseStrategies), usedProtocols)
         IN  IF ~shouldExclude THEN <<strategy>> \o rest ELSE rest

\* variant: the kept strategies come out in reverse
RECURSIVE FilterStrategies_Reversed(_, _)
FilterStrategies_Reversed(baseStrategies, usedProtocols) ==
    IF baseStrategies = <<>> THEN <<>>
    ELSE LET strategy == Head(baseStrategies)
             shouldExclude ==
                 \E protocol \in DOMAIN PROTOCOL_STRATEGY_MAP :
                     /\ protocol \in usedProtocols
                     /\ PROTOCOL_STRATEGY_MAP[protocol] = strategy
             rest == FilterStrategies_Reversed(Tail(baseStrategies), usedProtocols)
         IN  IF ~shouldExclude THEN rest \o <<strategy>> ELSE rest

RECURSIVE FilterStrategies(_, _)
FilterStrategies(baseStrategies, usedProtocols) ==
    IF baseStrategies = <<>> THEN <<>>
    ELSE LET strategy == Head(baseStrategies)
             shouldExclude ==
                 \E protocol \in DOMAIN PROTOCOL_STRATEGY_MAP :
                     /\ protocol \in usedProtocols
                     /\ PROTOCOL_STRATEGY_MAP[protocol] = strategy
             rest == FilterStrategies(Tail(baseStrategies), usedProtocols)
         IN  IF ~shouldExclude THEN <<strategy>> \o rest ELSE rest

Returned(list) == [threw |-> FALSE, value |-> list]
\* TypeError: baseStrategies is not iterable
Threw == [threw |-> TRUE, value |-> <<>>]

generateRecommendations(riskProfile, usedProtocols) ==
    LET looked == RiskProfileLookup(riskProfile)
        baseStrategies ==
            IF looked.kind # "undefined" THEN looked
            ELSE [kind |-> "array", value |-> RISK_PROFILE_STRATEGIES.moderate]
    IN  IF baseStrategies.kind # "array" THEN Threw
        ELSE Returned(FilterStrategies(baseStrategies.value, usedProtocols))

\* variant: the empty list is not treated apart
recommendStrategies_NoEmptyCase(acts, profileRisk) ==
    LET riskProfile ==
            IF profileRisk = Absent \/ profileRisk = ""
            THEN "moderate" ELSE profileRisk
    IN  generateRecommendations(riskProfile, extractUsedProtocols(acts))

\* profileRisk is profile?.riskProfile: Absent when there is no profile
recommendStrategies(acts, profileRisk) ==
    IF Len(acts) = 0 THEN Returned(<<STRATEGIES.BEGINNER>>)
    ELSE LET riskProfile ==
                 IF profileRisk = Absent \/ profileRisk = ""
                 THEN "moderate" ELSE profileRisk
             usedProtocols == extractUsedProtocols(acts)
         IN  generateRecommendations(riskProfile, usedProtocols)

(***************************************************************************)
(* defiAnalyzer.ts                                                         *)
(*                                                                         *)
(* An optional number (value, apy) is <<>> when absent and <<n>> when set. *)
(* APY values are fractions num/den of tenths of a percent: 5.0 is 50.     *)
(***************************************************************************)
APY_RANGES ==
    [ STAKING   |-> [min |-> 50, max |-> 80],
      LENDING   |-> [min |-> 30, max |-> 70],
      LIQUIDITY |-> [min |-> 80, max |-> 120] ]

ONE_DAY_MS == 24 * 60 * 60 * 1000

Wallets == {"walletA", "walletB"}

\* walletCache.get(key) of an address that was never set, or was evicted
NoEntry ==
    [ present |-> FALSE, activities |-> <<>>, profile |-> Absent,
      hasPositions |-> FALSE, defiPositions |-> <<>> ]

\* an entry as the fetch stores it: activities and profile, no defiPositions
EntryOf(acts, riskProfile) ==
    [ present |-> TRUE, activities |-> acts, profile |-> riskProfile,
      hasPositions |-> FALSE, defiPositions |-> <<>> ]

Drop(s, n) == SubSeq(s, n + 1, Len(s))

getActivitiesByType(acts, type) == SelectSeq(acts, LAMBDA a : a.type = type)

\* activity.value || 0
ValueOrZero(value) == IF value = <<>> THEN 0 ELSE value[1]

RECURSIVE calculateTotalValue(_)
calculateTotalValue(acts) ==
    IF acts = <<>> THEN 0
    ELSE ValueOrZero(Head(acts).value) + calculateTotalValue(Tail(acts))

\* variant: the offset range.min is forgotten
generateRandomApy_NoOffset(range, draw) ==
    [num |-> draw * (range.max - range.min), den |-> RandomSteps]

\* range.min + Math.random() * (range.max - range.min), Math.random() = draw/RandomSteps
generateRandomApy(range, draw) ==
    [num |-> range.min * RandomSteps + draw * (range.max - range.min), den |-> RandomSteps]

Position(protocol, type, tokenA, value, apy, timestamp) ==
    [ protocol |-> protocol, type |-> type, tokenA |-> tokenA, value |-> value,
      apy |-> apy, timestamp |-> timestamp ]

\* draws[i] is the Math.random() of the i-th mapped activity
processStakingPositions(acts, draws) ==
    LET staking == getActivitiesByType(acts, "Staking")
    IN  [ i \in 1..Len(staking) |->
            Position(identifyProtocol(staking[i].programId), "Staking",
                     staking[i].token, staking[i].value,
                     <<generateRandomApy(APY_RANGES.STAKING, draws[i])>>,
                     staking[i].timestamp) ]

IsSwapOrFluxbeam(a) == a.type = "Swap" \/ identifyProtocol(a.programId) = "FLUXBEAM"

RECURSIVE MaxTimestamp(_)
MaxTimestamp(acts) ==
    IF Len(acts) = 1 THEN acts[1].timestamp
    ELSE LET m == MaxTimestamp(Tail(acts))
         IN  IF acts[1].timestamp > m THEN acts[1].timestamp ELSE m

\* variant: the 24 hour filter is left out
processTradingPositions_NoRecentFilter(acts, clock) ==
    LET swapActivities == SelectSeq(acts, IsSwapOrFluxbeam)
    IN  IF Len(swapActivities) = 0 THEN <<>>
        ELSE << Position("FLUXBEAM", "Trading", Absent,
                         <<calculateTotalValue(swapActivities)>>, <<>>,
                         MaxTimestamp(swapActivities)) >>

processTradingPositions(acts, clock) ==
    LET swapActivities == SelectSeq(acts, IsSwapOrFluxbeam)
        recentSwaps == SelectSeq(swapActivities,
                                 LAMBDA a : clock - a.timestamp < ONE_DAY_MS)
    IN  IF Len(swapActivities) = 0 THEN <<>>
        ELSE IF Len(recentSwaps) > 0
             THEN << Position("FLUXBEAM", "Trading", Absent,
                              <<calculateTotalValue(recentSwaps)>>, <<>>,
                              MaxTimestamp(recentSwaps)) >>
             ELSE <<>>

processLendingPositions(acts, draws) ==
    LET lending == getActivitiesByType(acts, "Lending")
    IN  [ i \in 1..Len(lending) |->
            Position(identifyProtocol(lending[i].programId), "Lending",
                     lending[i].token, lending[i].value,
                     <<generateRandomApy(APY_RANGES.LENDING, draws[i])>>,
                     lending[i].timestamp) ]

\* variant: the type of the activity is not looked at
IsLiquidityActivity_AnyType(a) ==
    identifyProtocol(a.programId) \in {"RAYDIUM_SWAP", "ORCA_SWAP"}

IsLiquidityActivity(a) ==
    /\ a.type = "Account Creation"
    /\ identifyProtocol(a.programId) \in {"RAYDIUM_SWAP", "ORCA_SWAP"}

processLiquidityPositions(acts, draws) ==
    LET lp == SelectSeq(acts, IsLiquidityActivity)
    IN  [ i \in 1..Len(lp) |->
            Position(identifyProtocol(lp[i].programId), "Liquidity",
                     Absent, lp[i].value,
                     <<generateRandomApy(APY_RANGES.LIQUIDITY, draws[i])>>,
                     lp[i].timestamp) ]

createAggregatePosition(totalVolume, clock) ==
    Position("Aggregate", "Trading Statistics", "Multiple", <<totalVolume>>, <<>>, clock)

\* variant: the statistics are taken over the trading pass's activities
AggregatePositions_SwapOrFluxbeam(successfulActivities, clock) ==
    LET swapActivities == SelectSeq(successfulActivities, IsSwapOrFluxbeam)
    IN  IF Len(swapActivities) > 0
        THEN <<createAggregatePosition(calculateTotalValue(swapActivities), clock)>>
        ELSE <<>>

\* lines 40-45: what is pushed after the four passes
AggregatePositions(successfulActivities, clock) ==
    LET swapActivities == getActivitiesByType(successfulActivities, "Swap")
    IN  IF Len(swapActivities) > 0
        THEN <<createAggregatePosition(calculateTotalValue(swapActivities), clock)>>
        ELSE <<>>

\* variant: every position is stamped with the evaluation time
ComputePositions_StampsNow(successfulActivities, clock, draws) ==
    LET staking == processStakingPositions(successfulActivities, draws)
        trading == processTradingPositions(successfulActivities, clock)
        lending == processLendingPositions(successfulActivities,
                                           Drop(draws, Len(staking)))
        liquidity == processLiquidityPositions(successfulActivities,
                                               Drop(draws, Len(staking) + Len(lending)))
        all == staking \o trading \o lending \o liquidity
                 \o AggregatePositions(successfulActivities, clock)
    IN  [i \in 1..Len(all) |-> [all[i] EXCEPT !.timestamp = clock]]

\* lines 33-45; the draws are used in the order the passes call Math.random()
ComputePositions(successfulActivities, clock, draws) ==
    LET staking == processStakingPositions(successfulActivities, draws)
        trading == processTradingPositions(successfulActivities, clock)
        lending == processLendingPositions(successfulActivities,
                                           Drop(draws, Len(staking)))
        liquidity == processLiquidityPositions(successfulActivities,
                                               Drop(draws, Len(staking) + Len(lending)))
    IN  staking \o trading \o lending \o liquidity
          \o AggregatePositions(successfulActivities, clock)

\* variant: the entry is replaced by one that holds the positions only
CacheUpdate_Replace(cachedData, positions) ==
    [NoEntry EXCEPT !.present = TRUE, !.hasPositions = TRUE, !.defiPositions = positions]

\* { ...cachedData, defiPositions: positions }
CacheUpdate(cachedData, positions) ==
    [cachedData EXCEPT !.hasPositions = TRUE, !.defiPositions = positions]

\* the outcome of a call: the returned list, whether walletCache.set was
\* called and the entry of the wallet afterwards
Outcome(result, wrote, entry) == [result |-> result, wrote |-> wrote, entry |-> entry]

\* variant: the cached list is not consulted
analyzeDeFiPositions_NoShortCircuit(cachedData, clock, draws) ==
    LET successfulActivities == SelectSeq(cachedData.activities, LAMBDA a : a.success)
        positions == ComputePositions(successfulActivities, clock, draws)
    IN  IF Len(successfulActivities) = 0 THEN Outcome(<<>>, FALSE, cachedData)
        ELSE Outcome(positions, TRUE, CacheUpdate(cachedData, positions))

\* variant: the empty result is cached too
analyzeDeFiPositions_CachesEmpty(cachedData, clock, draws) ==
    LET successfulActivities == SelectSeq(cachedData.activities, LAMBDA a : a.success)
        positions == ComputePositions(successfulActivities, clock, draws)
    IN  IF cachedData.present /\ cachedData.hasPositions
        THEN Outcome(cachedData.defiPositions, FALSE, cachedData)
        ELSE IF Len(successfulActivities) = 0
             THEN Outcome(<<>>, TRUE, CacheUpdate(cachedData, <<>>))
             ELSE Outcome(positions, TRUE, CacheUpdate(cachedData, positions))

\* cachedData is walletCache.get(publicKey); an array, empty or not, is truthy
analyzeDeFiPositions(cachedData, clock, draws) ==
    LET successfulActivities == SelectSeq(cachedData.activities, LAMBDA a : a.success)
        positions == ComputePositions(successfulActivities, clock, draws)
    IN  IF cachedData.present /\ cachedData.hasPositions
        THEN Outcome(cachedData.defiPositions, FALSE, cachedData)
        ELSE IF Len(successfulActivities) = 0
             THEN Outcome(<<>>, FALSE, cachedData)
             ELSE IF cachedData.present
                  THEN Outcome(positions, TRUE, CacheUpdate(cachedData, positions))
                  ELSE Outcome(positions, FALSE, cachedData)

\* the number of Math.random() calls when the positions of this entry are
\* computed (a call that returns early makes none and ignores the draws)
DrawsNeeded(cachedData) ==
    LET successfulActivities == SelectSeq(cachedData.activities, LAMBDA a : a.success)
    IN  Len(getActivitiesByType(successfulActivities, "Staking"))
          + Len(getActivitiesByType(successfulActivities, "Lending"))
          + Len(SelectSeq(successfulActivities, IsLiquidityActivity))

(***************************************************************************)
(* formatWallet.ts.  A report is the list of its sections (joined by blank *)
(* lines), a section the list of its lines, a line its template text and   *)
(* the values interpolated into it.                                        *)
(***************************************************************************)
Line(text, args) == [text |-> text, args |-> args]

THRESHOLDS ==
    [ DIVERSIFICATION |-> [LOW |-> 30, MEDIUM |-> 60],
      ACTIVITY        |-> [LOW |-> 50, MEDIUM |-> 100] ]

\* the emoji are written by name
RISK_INDICATORS ==
    [ HIGH |-> "(warning) HIGH", MEDIUM |-> "(high voltage) MEDIUM", LOW |-> "(check mark) LOW" ]

ACTIVITY_INDICATORS ==
    [ HIGH |-> "(arrows) HIGH", MEDIUM |-> "(high voltage) MEDIUM", LOW |-> "(turtle) LOW" ]

TYPE_EMOJI ==
    [ Transfer |-> "(arrow upper right)", Swap |-> "(arrows)", Mint |-> "(sparkles)",
      Staking |-> "(pushpin)", Trading |-> "(chart)", Lending |-> "(bank)",
      Liquidity |-> "(droplet)", Other |-> "(small blue diamond)" ]

RISK_EMOJI ==
    [ conservative |-> "(green circle)", moderate |-> "(orange circle)",
      aggressive |-> "(red circle)" ]

\* TYPE_EMOJI[type] || fallback
TypeEmoji(type, fallback) ==
    IF type \in DOMAIN TYPE_EMOJI THEN TYPE_EMOJI[type] ELSE fallback

\* getProtocolEmoji: the first key of PROTOCOL_EMOJI which, with its first
\* "_" turned into a blank, is part of the upper-cased name.  Among the
\* names of KNOWN_PROGRAMS, "Unknown" and "Aggregate" only SOLEND and FLUXBEAM
\* contain such a key (a key with "_" never matches, "Aggregate" is not in
\* upper case).
getProtocolEmoji(protocolName) ==
    CASE protocolName = "SOLEND" -> "(dollar)"
      [] protocolName = "FLUXBEAM" -> "(high voltage)"
      [] OTHER -> "(small blue diamond)"

\* confidence is held in tenths
getConfidenceEmoji(confidence) ==
    IF confidence > 8 THEN "(magnifier left)"
    ELSE IF confidence > 5 THEN "(magnifier right)"
    ELSE "(question mark)"

getRiskLevelEmoji(riskLevel) ==
    CASE riskLevel = "low" -> "(green circle)"
      [] riskLevel = "medium" -> "(orange circle)"
      [] riskLevel = "high" -> "(red circle)"
      [] OTHER -> "(white circle)"

\* the types of the activities in the order of their first occurrence, as
\* the keys of the object that reduce() fills
RECURSIVE TypesInOrder(_)
TypesInOrder(acts) ==
    IF Len(acts) = 0 THEN <<>>
    ELSE LET before == TypesInOrder(SubSeq(acts, 1, Len(acts) - 1))
             type == acts[Len(acts)].type
         IN  IF \E i \in 1..Len(before) : before[i] = type
             THEN before ELSE Append(before, type)

\* Object.entries(countActivityTypes(activities))
countActivityTypes(acts) ==
    LET types == TypesInOrder(acts)
    IN  [ i \in 1..Len(types) |->
            [ key |-> types[i],
              count |-> Len(SelectSeq(acts, LAMBDA a : a.type = types[i])) ] ]

\* entries.sort((a, b) => b[1] - a[1]): stable, highest count first
RECURSIVE InsertByCount(_, _)
InsertByCount(sorted, e) ==
    IF Len(sorted) = 0 THEN <<e>>
    ELSE IF sorted[1].count >= e.count
         THEN <<sorted[1]>> \o InsertByCount(SubSeq(sorted, 2, Len(sorted)), e)
         ELSE <<e>> \o sorted

RECURSIVE SortByCount(_)
SortByCount(entries) ==
    IF Len(entries) = 0 THEN <<>>
    ELSE InsertByCount(SortByCount(SubSeq(entries, 1, Len(entries) - 1)),
                       entries[Len(entries)])

formatHeader(p) ==
    << Line("# Wallet Analysis Report {emoji}", <<RISK_EMOJI[p.riskProfile]>>),
       Line("", <<>>),
       Line("**Wallet Address:** '{address}'", <<p.address>>),
       Line("**Risk Profile:** {RISKPROFILE}", <<p.riskProfile>>),
       Line("**Portfolio Diversification Score:** {score}/100", <<p.portfolioDiversification>>) >>

formatActivityOverview(p, recentActivities) ==
    LET distribution == SortByCount(countActivityTypes(recentActivities))
    IN  << Line("## Activity Overview", <<>>),
           Line("**Total Transactions:** {count}", <<p.activityCount>>),
           Line("**First Activity:** {date}", <<p.firstActivityDate>>),
           Line("**Last Activity:** {date}", <<p.lastActivityDate>>),
           Line("**Transaction Volume:** {volume} SOL", <<p.transactionVolume>>),
           Line("", <<>>),
           Line("### Favorite Protocols", <<>>) >>
          \o [ i \in 1..Len(p.favoriteProtocols) |->
                 Line("- {emoji} {name}: {count} interactions",
                      << getProtocolEmoji(p.favoriteProtocols[i].name),
                         p.favoriteProtocols[i].name, p.favoriteProtocols[i].count >>) ]
          \o << Line("", <<>>),
                Line("### Recent Activity Distribution", <<>>) >>
          \o [ i \in 1..Len(distribution) |->
                 Line("- {emoji} {type}: {count} transactions",
                      << TypeEmoji(distribution[i].key, "(bullet)"),
                         distribution[i].key, distribution[i].count >>) ]

\* each pattern gives its heading line and its description line (the
\* description is the one of the pattern's type), with a blank line between
\* two patterns
PatternsContent(patternList) ==
    [ i \in 1..(3 * Len(patternList) - 1) |->
        LET pattern == patternList[(i + 2) \div 3]
        IN  CASE i % 3 = 1 ->
                   Line("### {patternType} {emoji} ({confidence}% confidence)",
                        << pattern.patternType,
                           getConfidenceEmoji(pattern.confidence),
                           pattern.confidence * 10 >>)
              [] i % 3 = 2 -> Line("{description}", <<pattern.patternType>>)
              [] OTHER -> Line("", <<>>) ]

\* variant: nothing is written for an empty list
formatBehavioralPatterns_OmitsEmpty(patternList) ==
    IF Len(patternList) = 0 THEN <<>>
    ELSE <<Line("## Behavioral Patterns", <<>>)>> \o PatternsContent(patternList)

formatBehavioralPatterns(patternList) ==
    IF Len(patternList) = 0
    THEN << Line("## Behavioral Patterns", <<>>),
            Line("No significant transaction patterns detected.", <<>>) >>
    ELSE <<Line("## Behavioral Patterns", <<>>)>> \o PatternsContent(patternList)

\* String.prototype.localeCompare on the protocol names and position types
\* that occur: their place in collation order
LocaleOrder ==
    << "Aggregate", "ASSOCIATED_TOKEN_PROGRAM", "FLUXBEAM", "JUPITER_AGGREGATOR",
       "Lending", "Liquidity", "MANGO_MARKETS", "MARINADE_STAKING", "METAPLEX",
       "ORCA_SWAP", "RAYDIUM_SWAP", "SERUM_DEX_V3", "SOLEND", "Staking",
       "TOKEN_PROGRAM", "Trading", "Trading Statistics", "Unknown" >>

LocaleRank(s) == CHOOSE i \in 1..Len(LocaleOrder) : LocaleOrder[i] = s

\* the comparator of lines 179-184 is negative or zero
ComesNotAfter(a, b) ==
    IF a.protocol # b.protocol
    THEN LocaleRank(a.protocol) < LocaleRank(b.protocol)
    ELSE LocaleRank(a.type) <= LocaleRank(b.type)

RECURSIVE InsertPosition(_, _)
InsertPosition(sorted, pos) ==
    IF Len(sorted) = 0 THEN <<pos>>
    ELSE IF ComesNotAfter(sorted[1], pos)
         THEN <<sorted[1]>> \o InsertPosition(SubSeq(sorted, 2, Len(sorted)), pos)
         ELSE <<pos>> \o sorted

\* positions.sort(...): stable, by protocol and then by type
RECURSIVE SortPositions(_)
SortPositions(positions) ==
    IF Len(positions) = 0 THEN <<>>
    ELSE InsertPosition(SortPositions(SubSeq(positions, 1, Len(positions) - 1)),
                        positions[Len(positions)])

\* !value: absent or 0
formatValue(value) ==
    IF value = <<>> \/ value = <<0>>
    THEN Line("- Value: Unknown", <<>>)
    ELSE Line("- Value: {value} SOL", value)

formatApy(apy) ==
    IF apy = <<>> \/ apy[1].num = 0
    THEN Line("- APY: N/A", <<>>)
    ELSE Line("- APY: {apy}%", apy)

\* the five lines of a position, then a blank line between two positions
PositionLines(pos) ==
    << Line("### {emoji} {protocol} - {type}",
            <<getProtocolEmoji(pos.protocol), pos.protocol, pos.type>>),
       Line("- Token: {token}", <<IF pos.tokenA \in {Absent, ""} THEN "Multiple" ELSE pos.tokenA>>),
       formatValue(pos.value),
       formatApy(pos.apy),
       Line("- Last Updated: {date}", <<pos.timestamp>>) >>

RECURSIVE PositionsContent(_)
PositionsContent(sorted) ==
    IF Len(sorted) = 0 THEN <<>>
    ELSE IF Len(sorted) = 1 THEN PositionLines(sorted[1])
    ELSE PositionLines(sorted[1]) \o <<Line("", <<>>)>>
           \o PositionsContent(SubSeq(sorted, 2, Len(sorted)))

\* the section, and the array that was passed in as the call leaves it:
\* sort() on line 179 sorts that array itself before map() copies it
formatDeFiPositions(positions) ==
    IF Len(positions) = 0
    THEN [ section |-> << Line("## Active DeFi Positions", <<>>),
                          Line("No active DeFi positions detected.", <<>>) >>,
           positions |-> positions ]
    ELSE LET sorted == SortPositions(positions)
         IN  [ section |-> <<Line("## Active DeFi Positions", <<>>)>> \o PositionsContent(sorted),
               positions |-> sorted ]

\* three lines for each recommendation and a blank line between two
formatRecommendations(recs) ==
    IF Len(recs) = 0
    THEN << Line("## Strategy Recommendations", <<>>),
            Line("No strategy recommendations available.", <<>>) >>
    ELSE << Line("## Strategy Recommendations", <<>>) >>
           \o [ i \in 1..(4 * Len(recs) - 1) |->
                  LET rec == recs[(i + 3) \div 4]
                  IN  CASE i % 4 = 1 ->
                             Line("### {strategy} {emoji}",
                                  <<rec.strategy, getRiskLevelEmoji(rec.riskLevel)>>)
                        [] i % 4 = 2 -> Line("- {description}", <<rec.strategy>>)
                        [] i % 4 = 3 -> Line("- Expected Return: {potentialReturn}", <<rec.strategy>>)
                        [] OTHER -> Line("", <<>>) ]

\* variant: a score of exactly the threshold still counts as below it
ConcentrationRisk_Inclusive(p) ==
    IF p.portfolioDiversification <= THRESHOLDS.DIVERSIFICATION.LOW
    THEN RISK_INDICATORS.HIGH
    ELSE IF p.portfolioDiversification <= THRESHOLDS.DIVERSIFICATION.MEDIUM
         THEN RISK_INDICATORS.MEDIUM
         ELSE RISK_INDICATORS.LOW

\* lines 228-233
ConcentrationRisk(p) ==
    IF p.portfolioDiversification < THRESHOLDS.DIVERSIFICATION.LOW
    THEN RISK_INDICATORS.HIGH
    ELSE IF p.portfolioDiversification < THRESHOLDS.DIVERSIFICATION.MEDIUM
         THEN RISK_INDICATORS.MEDIUM
         ELSE RISK_INDICATORS.LOW

\* lines 236-241
TradingFrequency(p) ==
    IF p.activityCount > THRESHOLDS.ACTIVITY.MEDIUM
    THEN ACTIVITY_INDICATORS.HIGH
    ELSE IF p.activityCount > THRESHOLDS.ACTIVITY.LOW
         THEN ACTIVITY_INDICATORS.MEDIUM
         ELSE ACTIVITY_INDICATORS.LOW

formatRiskAssessment(p) ==
    << Line("## Risk Assessment", <<>>),
       Line("- Portfolio Concentration: {concentrationRisk}", <<ConcentrationRisk(p)>>),
       Line("- Trading Frequency: {tradingFrequency}", <<TradingFrequency(p)>>),
       Line("- Protocol Diversity: {count} different protocols used",
            <<Len(p.favoriteProtocols)>>) >>

formatSafetyTips(p) ==
    LET commonTips ==
            << "Always verify transaction details before signing",
               "Consider using hardware wallet for large holdings",
               "Maintain a diversified portfolio across different protocols",
               "Monitor position health regularly" >>
        aggressiveTips ==
            IF p.riskProfile = "aggressive"
            THEN <<"Consider setting stop-loss orders for trading positions">>
            ELSE <<>>
        diversificationTips ==
            IF p.portfolioDiversification < THRESHOLDS.DIVERSIFICATION.LOW
            THEN <<"Consider diversifying across more protocols to reduce risk">>
            ELSE <<>>
        allTips == commonTips \o aggressiveTips \o diversificationTips
    IN  << Line("## Safety Tips", <<>>) >>
          \o [i \in 1..Len(allTips) |-> Line("- {tip}", <<allTips[i]>>)]
          \o << Line("", <<>>),
                Line("*This analysis is based on on-chain activity and is provided for informational purposes only.*", <<>>) >>

\* the report, and the positions argument as the call leaves it
formatWalletAnalysis(p, patternList, positions, recs, recentActivities) ==
    LET defi == formatDeFiPositions(positions)
    IN  [ report |-> << formatHeader(p),
                        formatActivityOverview(p, recentActivities),
                        formatBehavioralPatterns(patternList),
                        defi.section,
                        formatRecommendations(recs),
                        formatRiskAssessment(p),
                        formatSafetyTips(p) >>,
          positions |-> defi.positions ]

(***************************************************************************)
(* formatTransaction.ts                                                    *)
(***************************************************************************)
SYSTEM_PROGRAMS ==
    [ SYSTEM_PROGRAM |-> "11111111111111111111111111111111",
      COMPUTE_BUDGET |-> "ComputeBudget111111111111111111111111111111",
      TOKEN_PROGRAM  |-> "TokenkegQfeZyiNwAJbNbGKPFXCWuBvf9Ss623VQ5DA" ]

\* in seconds
TIME_UNITS == [SECOND |-> 1, MINUTE |-> 60, HOUR |-> 60 * 60, DAY |-> 24 * 60 * 60]

COMPLEXITY ==
    [ SIMPLE   |-> "Simple (Single Program)",
      MODERATE |-> "Moderate (2-3 Programs)",
      COMPLEX  |-> "Complex (Multiple Programs)" ]

determineComplexity(programCount) ==
    IF programCount = 1 THEN COMPLEXITY.SIMPLE
    ELSE IF programCount <= 3 THEN COMPLEXITY.MODERATE
    ELSE COMPLEXITY.COMPLEX

\* the "time ago" part of formatTimeInfo, read at the given clock
timeAgoStr(timestamp, clock) ==
    LET timeAgo == (clock - timestamp) \div 1000
    IN  IF timeAgo < TIME_UNITS.MINUTE THEN Line("{n} seconds ago", <<timeAgo>>)
        ELSE IF timeAgo < TIME_UNITS.HOUR
             THEN Line("{n} minutes ago", <<timeAgo \div TIME_UNITS.MINUTE>>)
        ELSE IF timeAgo < TIME_UNITS.DAY
             THEN Line("{n} hours ago", <<timeAgo \div TIME_UNITS.HOUR>>)
        ELSE Line("{n} days ago", <<timeAgo \div TIME_UNITS.DAY>>)

determineAccountRoles(tx) ==
    [ i \in 1..Len(tx.accounts) |->
        IF tx.accounts[i] = SYSTEM_PROGRAMS.SYSTEM_PROGRAM THEN "System Program"
        ELSE IF tx.accounts[i] = SYSTEM_PROGRAMS.COMPUTE_BUDGET THEN "Compute Budget Program"
        ELSE IF \E j \in 1..Len(tx.programIds) : tx.programIds[j].id = tx.accounts[i]
             THEN "Program"
        ELSE "User Account" ]

\* program.name || fallback
ProgramName(program, fallback) ==
    IF program.name \in {Absent, ""} THEN fallback ELSE program.name

formatBasicInfo(tx, clock) ==
    << Line("# Transaction Details {statusEmoji}",
            <<IF tx.status = "Success" THEN "(check mark)" ELSE "(cross mark)">>),
       Line("", <<>>),
       Line("## Basic Information", <<>>),
       Line("**Type:** {typeEmoji} {type}", <<TypeEmoji(tx.type, "(page)"), tx.type>>),
       Line("**Status:** {status}", <<tx.status>>),
       Line("**Signature:** '{signature}'", <<tx.signature>>),
       Line("**Timestamp:** {date} ({timeAgo})", <<tx.blockTime, timeAgoStr(tx.blockTime, clock)>>),
       Line("**Transaction Fee:** {fee} SOL", <<tx.fee>>) >>

formatProgramInteraction(tx) ==
    << Line("## Program Interaction", <<>>) >>
      \o [ i \in 1..Len(tx.programIds) |->
             Line("- **{name}** ('{id}')",
                  <<ProgramName(tx.programIds[i], "Unknown Program"), tx.programIds[i].id>>) ]

formatAccountParticipants(tx, accountRoles) ==
    << Line("## Account Participants", <<>>) >>
      \o [ i \in 1..Len(tx.accounts) |->
             Line("- **{role}**: '{account}'", <<accountRoles[i], tx.accounts[i]>>) ]

formatTransactionAnalysis(tx, complexity, isTokenTransfer) ==
    << Line("## Transaction Analysis", <<>>),
       Line("- **Complexity:** {complexity}", <<complexity>>),
       Line("- **Program Type:** {names}",
            [i \in 1..Len(tx.programIds) |-> ProgramName(tx.programIds[i], "Unknown")]),
       Line("- **Account Count:** {count} accounts involved", <<Len(tx.accounts)>>) >>
      \o (IF tx.type = "Transfer"
          THEN << Line("- **Transfer Type:** {kind}",
                       <<IF isTokenTransfer THEN "Token Transfer" ELSE "SOL Transfer">>),
                  Line("", <<>>) >>
          ELSE << Line("", <<>>) >>)

\* the fee is held in millionths of a SOL: fee > 0.001
formatSecurityConsiderations(tx) ==
    << Line("## Security Considerations", <<>>),
       Line("- Always verify transaction signatures", <<>>),
       Line("- Check program IDs match expected addresses", <<>>),
       Line("- Confirm account permissions and roles", <<>>) >>
      \o (IF tx.fee > 1000
          THEN << Line("- **Note:** Higher than average transaction fee", <<>>),
                  Line("", <<>>) >>
          ELSE << Line("", <<>>) >>)
      \o << Line("*This analysis is based on on-chain data and is provided for informational purposes only.*", <<>>) >>

\* processTransactionDetails and the join of its five sections
formatTransactionDetails(tx, clock) ==
    LET accountRoles == determineAccountRoles(tx)
        isTokenTransfer ==
            /\ tx.type = "Transfer"
            /\ \E j \in 1..Len(tx.programIds) :
                  tx.programIds[j].id = SYSTEM_PROGRAMS.TOKEN_PROGRAM
        complexity == determineComplexity(Len(tx.programIds))
    IN  << formatBasicInfo(tx, clock),
           formatProgramInteraction(tx),
           formatAccountParticipants(tx, accountRoles),
           formatTransactionAnalysis(tx, complexity, isTokenTransfer),
           formatSecurityConsiderations(tx) >>

\* the protocols of the activities in the order of their first occurrence
RECURSIVE ProtocolsInOrder(_)
ProtocolsInOrder(acts) ==
    IF Len(acts) = 0 THEN <<>>
    ELSE LET before == ProtocolsInOrder(SubSeq(acts, 1, Len(acts) - 1))
             protocol == identifyProtocol(acts[Len(acts)].programId)
         IN  IF \E i \in 1..Len(before) : before[i] = protocol
             THEN before ELSE Append(before, protocol)

RECURSIVE OldestTimestamp(_)
OldestTimestamp(acts) ==
    IF Len(acts) = 1 THEN acts[1].timestamp
    ELSE LET rest == OldestTimestamp(SubSeq(acts, 2, Len(acts)))
         IN  IF acts[1].timestamp < rest THEN acts[1].timestamp ELSE rest

\* the single pass over a non-empty list; the timestamps are positive, so
\* the newest one is above the initial 0
analyzeActivities(acts) ==
    LET protocols == ProtocolsInOrder(acts)
    IN  [ activityTypes |-> countActivityTypes(acts),
          totalVolume |-> calculateTotalValue(acts),
          oldestTimestamp |-> OldestTimestamp(acts),
          newestTimestamp |-> MaxTimestamp(acts),
          programInteractions |->
              [ i \in 1..Len(protocols) |->
                  [ key |-> protocols[i],
                    count |-> Len(SelectSeq(acts,
                                  LAMBDA a : identifyProtocol(a.programId) = protocols[i])) ] ] ]

\* the lines of one transaction of the history: the template opens with a
\* line break and ends with the description line, empty when there is none
\* (the activities here carry neither signature nor description)
ActivityLines(activity) ==
    << Line("", <<>>),
       Line("### {emoji} Transaction at {date}",
            <<TypeEmoji(activity.type, "(bullet)"), activity.timestamp>>),
       Line("- **Type:** {type}", <<activity.type>>),
       (IF activity.value = <<>> \/ activity.value = <<0>>
        THEN Line("- **Value:** N/A", <<>>)
        ELSE Line("- **Value:** {value} SOL", activity.value)),
       Line("- **Program:** {protocol}", <<identifyProtocol(activity.programId)>>),
       Line("- **Status:** {status}",
            <<IF activity.success THEN "(check mark) Success" ELSE "(cross mark) Failed">>),
       Line("- **Signature:** '{signature}'", <<>>),
       Line("", <<>>) >>

RECURSIVE HistoryLines(_)
HistoryLines(acts) ==
    IF Len(acts) = 0 THEN <<>>
    ELSE ActivityLines(acts[1]) \o HistoryLines(SubSeq(acts, 2, Len(acts)))

buildMarkdownReport(walletAddress, acts, analysis) ==
    LET n == Len(acts)
        span == analysis.newestTimestamp - analysis.oldestTimestamp
        \* activities.length / daysDifference, or the length itself
        transactionsPerDay ==
            IF span > 0 THEN [num |-> n * ONE_DAY_MS, den |-> span]
            ELSE [num |-> n, den |-> 1]
        mostCommonActivity == SortByCount(analysis.activityTypes)[1].key
        recent == SortDescending(acts)
        shown == SubSeq(recent, 1, IF n > 10 THEN 10 ELSE n)
        programs == SortByCount(analysis.programInteractions)
    IN  << << Line("# Wallet Activity Report", <<>>),
              Line("", <<>>),
              Line("**Wallet Address:** '{address}'", <<walletAddress>>),
              Line("**Time Period:** {date} to {date}",
                   <<analysis.oldestTimestamp, analysis.newestTimestamp>>),
              Line("**Total Transactions:** {count}", <<n>>),
              Line("**Total Volume:** {volume} SOL", <<analysis.totalVolume>>) >>,
           << Line("## Activity Summary", <<>>) >>
             \o [ i \in 1..Len(analysis.activityTypes) |->
                    Line("- {emoji} {type}: {count} transactions",
                         << TypeEmoji(analysis.activityTypes[i].key, "(bullet)"),
                            analysis.activityTypes[i].key,
                            analysis.activityTypes[i].count >>) ],
           << Line("## Detailed Transaction History", <<>>) >> \o HistoryLines(shown),
           << Line("## Transaction Patterns", <<>>),
              Line("- **Most Common Activity:** {emoji} {type}",
                   <<TypeEmoji(mostCommonActivity, "(bullet)"), mostCommonActivity>>),
              Line("- **Average Transaction Value:** {value} SOL",
                   <<[num |-> analysis.totalVolume, den |-> n]>>),
              Line("- **Activity Frequency:** {rate} transactions per day",
                   <<transactionsPerDay>>) >>,
           << Line("## Program Interaction Summary", <<>>) >>
             \o [ i \in 1..Len(programs) |->
                    Line("- {program}: {count} interactions",
                         <<programs[i].key, programs[i].count>>) ]
             \o << Line("", <<>>),
                   (IF n > 10
                    THEN Line("*This activity report shows the 10 most recent of {count} transactions. For a full analysis, use the analyzeWallet tool.*", <<n>>)
                    ELSE Line("*This activity report includes all {count} transactions. For a full analysis, use the analyzeWallet tool.*", <<n>>)) >> >>

formatActivityHistory(acts, walletAddress) ==
    IF Len(acts) = 0
    THEN << <<Line("# Wallet Activity Report", <<>>)>>,
            <<Line("**Wallet Address:** '{address}'", <<walletAddress>>)>>,
            <<Line("No transaction history found for this wallet.", <<>>)>> >>
    ELSE buildMarkdownReport(walletAddress, acts, analyzeActivities(acts))

(***************************************************************************)
(* Inputs                                                                  *)
(***************************************************************************)
Activity(type, timestamp, success, programId) ==
    [type |-> type, timestamp |-> timestamp, success |-> success, programId |-> programId]

Swap(timestamp) == Activity("Swap", timestamp, TRUE, KNOWN_PROGRAMS.RAYDIUM_SWAP)

\* the wallet histories a run starts from
InitialHistories ==
    { <<>>,
      \* equally spaced swaps, not in time order
      <<Swap(2000), Swap(0), Swap(3000), Swap(1000)>>,
      \* gaps 1000, 50, 9000
      <<Swap(10050), Swap(0), Swap(1050), Swap(1000)>>,
      \* three swaps in the same millisecond
      <<Swap(1000), Swap(1000), Swap(1000)>> }

\* the activities a fetch can append
FetchedActivities ==
    { Swap(1000),
      Activity("Swap", 4800, FALSE, KNOWN_PROGRAMS.MANGO_MARKETS),
      Activity("Lending", 500, TRUE, KNOWN_PROGRAMS.SOLEND),
      Activity("Lending", 700, FALSE, "Unknown"),
      Activity("Staking", 1500, TRUE, KNOWN_PROGRAMS.MARINADE_STAKING),
      Activity("Staking", 2500, FALSE, "11111111111111111111111111111111"),
      Activity("Transfer", 3000, TRUE, Absent) }

\* the riskProfile values of the profile argument; Absent: no profile given
RiskProfiles ==
    { Absent, "", "conservative", "moderate", "aggressive", "degen", "constructor" }

NoPatterns == <<>>
NoRecommendations == Returned(<<>>)

\* the clock at the start of a run, and the step of a tick (half a day)
StartTime == 200 * 1000 * 1000
TickMs == ONE_DAY_MS \div 2

DefiActivity(type, programId, token, value, timestamp, success) ==
    [ type |-> type, programId |-> programId, token |-> token, value |-> value,
      timestamp |-> timestamp, success |-> success ]

\* timestamps: long ago; exactly 24 hours, 50 000 s and 1 s before StartTime
LongAgo == 10 * 1000 * 1000
ADayBefore == StartTime - ONE_DAY_MS
HoursBefore == StartTime - 50 * 1000 * 1000
JustBefore == StartTime - 1000

StakingOnly ==
    << DefiActivity("Staking", KNOWN_PROGRAMS.MARINADE_STAKING, "SOL", <<10>>, LongAgo, TRUE) >>

FailedOnly ==
    << DefiActivity("Staking", KNOWN_PROGRAMS.MARINADE_STAKING, "SOL", <<10>>, LongAgo, FALSE),
       DefiActivity("Swap", KNOWN_PROGRAMS.RAYDIUM_SWAP, "USDC", <<4>>, JustBefore, FALSE) >>

Mixed ==
    << DefiActivity("Staking", KNOWN_PROGRAMS.MARINADE_STAKING, "mSOL", <<10>>, LongAgo, TRUE),
       DefiActivity("Lending", KNOWN_PROGRAMS.SOLEND, "USDT", <<9>>, HoursBefore, FALSE),
       DefiActivity("Swap", KNOWN_PROGRAMS.RAYDIUM_SWAP, "USDC", <<>>, JustBefore, TRUE),
       DefiActivity("Lending", KNOWN_PROGRAMS.SOLEND, "USDC", <<20>>, HoursBefore, TRUE),
       DefiActivity("Transfer", KNOWN_PROGRAMS.FLUXBEAM, "FLUX", <<7>>, HoursBefore, TRUE),
       DefiActivity("Swap", KNOWN_PROGRAMS.JUPITER_AGGREGATOR, "JUP", <<5>>, LongAgo, TRUE),
       DefiActivity("Account Creation", KNOWN_PROGRAMS.RAYDIUM_SWAP, Absent, <<3>>, HoursBefore, TRUE) >>

OldSwaps ==
    << DefiActivity("Swap", KNOWN_PROGRAMS.ORCA_SWAP, "USDC", <<5>>, LongAgo, TRUE),
       DefiActivity("Swap", "Unknown", "BONK", <<3>>, ADayBefore, TRUE) >>

FluxbeamOnly ==
    << DefiActivity("Transfer", KNOWN_PROGRAMS.FLUXBEAM, "FLUX", <<7>>, HoursBefore, TRUE),
       DefiActivity("Mint", KNOWN_PROGRAMS.FLUXBEAM, "FLUX", <<2>>, LongAgo, TRUE) >>

NoPositions ==
    << DefiActivity("Transfer", KNOWN_PROGRAMS.TOKEN_PROGRAM, "SOL", <<1>>, JustBefore, TRUE),
       DefiActivity("Account Creation", KNOWN_PROGRAMS.ASSOCIATED_TOKEN_PROGRAM, Absent, <<>>,
                    JustBefore, TRUE),
       DefiActivity("Other", KNOWN_PROGRAMS.ORCA_SWAP, Absent, <<>>, JustBefore, TRUE) >>

Pools ==
    << DefiActivity("Account Creation", KNOWN_PROGRAMS.ORCA_SWAP, "ORCA", <<6>>, HoursBefore, TRUE),
       DefiActivity("Account Creation", KNOWN_PROGRAMS.RAYDIUM_SWAP, "RAY", <<8>>, JustBefore, FALSE),
       DefiActivity("Account Creation", KNOWN_PROGRAMS.MANGO_MARKETS, "MNGO", <<2>>, JustBefore, TRUE),
       DefiActivity("Account Creation", KNOWN_PROGRAMS.RAYDIUM_SWAP, "RAY", <<>>, LongAgo, TRUE) >>

\* the activity lists a fetch can store for a wallet
DefiHistories ==
    {<<>>, StakingOnly, FailedOnly, Mixed, OldSwaps, FluxbeamOnly, NoPositions, Pools}

\* the wallets whose activities are fetched during a run
FetchedWallets == {"walletA"}

EmptyCache == [w \in Wallets |-> NoEntry]

NoCall ==
    [ called |-> FALSE, wallet |-> Absent, before |-> EmptyCache, result |-> <<>>,
      wrote |-> FALSE, at |-> 0 ]

\* the arguments identifyProtocol is called with
ProgramIdInputs ==
    {KNOWN_PROGRAMS[k] : k \in DOMAIN KNOWN_PROGRAMS}
      \cup { Absent, "", "Unknown", "11111111111111111111111111111111",
             "marbmssgkxdrn1egzf5sqe1tmai9k1rchyndjgjq7ad",
             "MARINADE_STAKING" }

\* wallet profiles: scores and counts at and around the thresholds
DiversificationScores == {0, 29, 30, 59, 60, 100}

ActivityCounts == {0, 50, 51, 100, 101, 500}

Favorites == << [name |-> "SOLEND", count |-> 3], [name |-> "RAYDIUM_SWAP", count |-> 1] >>

ProfileOf(riskProfile, diversification, activityCount, favoriteProtocols) ==
    [ address |-> "walletA", riskProfile |-> riskProfile,
      portfolioDiversification |-> diversification, activityCount |-> activityCount,
      firstActivityDate |-> LongAgo, lastActivityDate |-> JustBefore,
      transactionVolume |-> 42, favoriteProtocols |-> favoriteProtocols ]

WalletProfiles ==
    { ProfileOf("moderate", d, c, Favorites) :
        d \in DiversificationScores, c \in ActivityCounts }
      \cup { ProfileOf("aggressive", 29, 101, <<>>), ProfileOf("conservative", 60, 0, <<>>) }

PatternInputs == { <<>>, <<PATTERNS.GENERAL>>, <<PATTERNS.DCA, PATTERNS.LENDING>> }

RecommendationInputs ==
    { <<>>, <<STRATEGIES.BEGINNER>>,
      <<STRATEGIES.SUPPLY_STABLECOINS, STRATEGIES.DIVERSIFIED_LP>> }

\* the programs of a transaction are taken from this list, in turn
ProgramPool ==
    << [id |-> SYSTEM_PROGRAMS.TOKEN_PROGRAM, name |-> "Token Program"],
       [id |-> KNOWN_PROGRAMS.RAYDIUM_SWAP, name |-> "Raydium"],
       [id |-> SYSTEM_PROGRAMS.COMPUTE_BUDGET, name |-> Absent],
       [id |-> KNOWN_PROGRAMS.JUPITER_AGGREGATOR, name |-> ""],
       [id |-> SYSTEM_PROGRAMS.SYSTEM_PROGRAM, name |-> "System Program"] >>

ProgramsOf(n) == [i \in 1..n |-> ProgramPool[((i - 1) % Len(ProgramPool)) + 1]]

\* block times 30 seconds, 5 minutes, 3 hours and 2 days before StartTime
BlockTimes ==
    { StartTime - 30 * 1000, StartTime - 5 * 60 * 1000,
      StartTime - 3 * 60 * 60 * 1000, StartTime - 2 * ONE_DAY_MS }

\* fees in millionths of a SOL, below and above 0.001
Fees == {5, 5000}

TransactionInputs ==
    { [ type |-> type, status |-> status, signature |-> "5xSig", blockTime |-> blockTime,
        fee |-> fee, programIds |-> ProgramsOf(n),
        accounts |-> << "walletA", SYSTEM_PROGRAMS.SYSTEM_PROGRAM,
                        SYSTEM_PROGRAMS.TOKEN_PROGRAM >> ] :
        type \in {"Transfer", "Swap"}, status \in {"Success", "Failed"},
        blockTime \in BlockTimes, fee \in Fees, n \in 0..MaxPrograms }

NoFormatCall ==
    [ function |-> "none", arguments |-> <<>>, positionsAfter |-> <<>>,
      cacheBefore |-> EmptyCache ]

NoReport == <<>>

(***************************************************************************)
(* State machine                                                           *)
(***************************************************************************)
Init ==
    /\ activities \in InitialHistories
    /\ fetched = 0
    /\ call = "none"
    /\ profile = Absent
    /\ patterns = NoPatterns
    /\ dcaLocals = NotEvaluated
    /\ recommendations = NoRecommendations
    /\ cache = EmptyCache
    /\ now = StartTime
    /\ lastCall = NoCall
    /\ prevCall = NoCall
    /\ lookups = <<>>
    /\ formatCall = NoFormatCall
    /\ report = NoReport

\* a fetch appends one activity to the wallet's list; the outputs of the
\* previous request are gone
FetchActivity ==
    /\ fetched < MaxFetched
    /\ \E a \in FetchedActivities : activities' = Append(activities, a)
    /\ fetched' = fetched + 1
    /\ call' = "none"
    /\ profile' = Absent
    /\ patterns' = NoPatterns
    /\ dcaLocals' = NotEvaluated
    /\ recommendations' = NoRecommendations
    /\ UNCHANGED <<defiVars, lookups, formatVars>>

\* variant: the argument is sorted in place
AnalyzeTransactionPatterns_SortsInPlace ==
    /\ call' = "analyzeTransactionPatterns"
    /\ patterns' = analyzeTransactionPatterns(activities)
    /\ dcaLocals' = AnalyzeDCALocals(activities)
    /\ profile' = Absent
    /\ recommendations' = NoRecommendations
    /\ activities' = SortDescending(activities)
    /\ UNCHANGED <<fetched, defiVars, lookups, formatVars>>

AnalyzeTransactionPatterns ==
    /\ call' = "analyzeTransactionPatterns"
    /\ patterns' = analyzeTransactionPatterns(activities)
    /\ dcaLocals' = AnalyzeDCALocals(activities)
    /\ profile' = Absent
    /\ recommendations' = NoRecommendations
    /\ UNCHANGED <<activities, fetched, defiVars, lookups, formatVars>>

RecommendStrategies ==
    /\ \E p \in RiskProfiles :
        /\ profile' = p
        /\ recommendations' = recommendStrategies(activities, p)
    /\ call' = "recommendStrategies"
    /\ patterns' = NoPatterns
    /\ dcaLocals' = NotEvaluated
    /\ UNCHANGED <<activities, fetched, defiVars, lookups, formatVars>>

Next ==
    \/ FetchActivity
    \/ AnalyzeTransactionPatterns
    \/ RecommendStrategies

Spec == Init /\ [][Next]_vars

(***************************************************************************)
(* State machine of the position synthesizer: the cache, the clock and     *)
(* analyzeDeFiPositions calls                                              *)
(***************************************************************************)
AnalyzersIdle ==
    /\ activities = <<>>
    /\ fetched = 0
    /\ call = "none"
    /\ profile = Absent
    /\ patterns = NoPatterns
    /\ dcaLocals = NotEvaluated
    /\ recommendations = NoRecommendations

InitDefi ==
    /\ AnalyzersIdle
    /\ cache \in { c \in [Wallets -> {NoEntry, EntryOf(StakingOnly, "moderate")}] :
                     c["walletA"] = NoEntry }
    /\ now = StartTime
    /\ lastCall = NoCall
    /\ prevCall = NoCall
    /\ lookups = <<>>
    /\ formatCall = NoFormatCall
    /\ report = NoReport

\* one call analyzeDeFiPositions(w): the cache and the call record after it
DefiCallStep(w) ==
    \E draws \in [1..DrawsNeeded(cache[w]) -> 0..(RandomSteps - 1)] :
        LET out == analyzeDeFiPositions(cache[w], now, draws)
        IN  /\ cache' = IF out.wrote THEN [cache EXCEPT ![w] = out.entry] ELSE cache
            /\ lastCall' = [ called |-> TRUE, wallet |-> w, before |-> cache,
                             result |-> out.result, wrote |-> out.wrote, at |-> now ]

AnalyzeDeFiPositions ==
    /\ \E w \in Wallets : DefiCallStep(w)
    /\ UNCHANGED <<analyzerVars, now, prevCall, lookups, formatVars>>

\* walletCache.set(w, {...entry, activities}) by the activity fetch: the
\* other fields of an existing entry are kept
StoreActivities ==
    /\ \E w \in FetchedWallets, acts \in DefiHistories :
          cache' = [cache EXCEPT ![w] =
                      IF cache[w].present
                      THEN [cache[w] EXCEPT !.activities = acts]
                      ELSE EntryOf(acts, "conservative")]
    /\ lastCall' = NoCall
    /\ UNCHANGED <<analyzerVars, now, prevCall, lookups, formatVars>>

\* the entry of a wallet leaves the cache
Evict ==
    /\ \E w \in FetchedWallets :
          /\ cache[w].present
          /\ cache' = [cache EXCEPT ![w] = NoEntry]
    /\ lastCall' = NoCall
    /\ UNCHANGED <<analyzerVars, now, prevCall, lookups, formatVars>>

\* time passes
Tick ==
    /\ now < StartTime + MaxTicks * TickMs
    /\ now' = now + TickMs
    /\ lastCall' = NoCall
    /\ UNCHANGED <<analyzerVars, cache, prevCall, lookups, formatVars>>

NextDefi ==
    \/ AnalyzeDeFiPositions
    \/ StoreActivities
    \/ Evict
    \/ Tick

SpecDefi == InitDefi /\ [][NextDefi]_vars

(***************************************************************************)
(* Two calls for one wallet whose cached activities stay the same; the     *)
(* cached positions may be dropped and time may pass in between            *)
(***************************************************************************)
InitTwice ==
    /\ AnalyzersIdle
    /\ \E acts \in DefiHistories :
          cache = [EmptyCache EXCEPT !["walletA"] = EntryOf(acts, "moderate")]
    /\ now = StartTime
    /\ lastCall = NoCall
    /\ prevCall = NoCall
    /\ lookups = <<>>
    /\ formatCall = NoFormatCall
    /\ report = NoReport

FirstCall ==
    /\ ~lastCall.called
    /\ DefiCallStep("walletA")
    /\ UNCHANGED <<analyzerVars, now, prevCall, lookups, formatVars>>

\* the cached positions are dropped, the activities stay
ClearPositions ==
    /\ lastCall.called /\ ~prevCall.called
    /\ cache["walletA"].hasPositions
    /\ cache' = [cache EXCEPT !["walletA"] =
                    [@ EXCEPT !.hasPositions = FALSE, !.defiPositions = <<>>]]
    /\ UNCHANGED <<analyzerVars, now, lastCall, prevCall, lookups, formatVars>>

TimePasses ==
    /\ lastCall.called /\ ~prevCall.called
    /\ now < StartTime + MaxTicks * TickMs
    /\ now' = now + TickMs
    /\ UNCHANGED <<analyzerVars, cache, lastCall, prevCall, lookups, formatVars>>

SecondCall ==
    /\ lastCall.called /\ ~prevCall.called
    /\ DefiCallStep("walletA")
    /\ prevCall' = lastCall
    /\ UNCHANGED <<analyzerVars, now, lookups, formatVars>>

NextTwice ==
    \/ FirstCall
    \/ ClearPositions
    \/ TimePasses
    \/ SecondCall

SpecTwice == InitTwice /\ [][NextTwice]_vars

(***************************************************************************)
(* identifyProtocol applied to program ids                                 *)
(***************************************************************************)
InitIdentify ==
    /\ AnalyzersIdle
    /\ cache = EmptyCache
    /\ now = StartTime
    /\ lastCall = NoCall
    /\ prevCall = NoCall
    /\ lookups = <<>>
    /\ formatCall = NoFormatCall
    /\ report = NoReport

IdentifyProtocol ==
    /\ Len(lookups) < MaxLookups
    /\ \E programId \in ProgramIdInputs :
          lookups' = Append(lookups, [ programId |-> programId,
                                       protocol |-> identifyProtocol(programId) ])
    /\ UNCHANGED <<analyzerVars, defiVars, formatVars>>

NextIdentify == IdentifyProtocol

SpecIdentify == InitIdentify /\ [][NextIdentify]_vars

(***************************************************************************)
(* The formatters: a wallet is analysed, then one report is rendered.      *)
(***************************************************************************)
InitFormat ==
    /\ AnalyzersIdle
    /\ \E acts \in DefiHistories, riskProfile \in {"moderate", "aggressive"} :
          cache = [EmptyCache EXCEPT !["walletA"] = EntryOf(acts, riskProfile)]
    /\ now = StartTime
    /\ lastCall = NoCall
    /\ prevCall = NoCall
    /\ lookups = <<>>
    /\ formatCall = NoFormatCall
    /\ report = NoReport

\* analyzeDeFiPositions, once or twice, before anything is rendered
AnalyzeBeforeFormat ==
    /\ formatCall.function = "none"
    /\ FirstCall \/ SecondCall

\* formatWalletAnalysis on the positions the latest analyzeDeFiPositions call
\* returned.  That array is the one in the cache entry when the call returned
\* the cached array or stored the one it built, and the cache holds arrays
\* by reference; a cache that copies on get and set keeps its own array.
FormatWalletAnalysis ==
    /\ formatCall.function = "none"
    /\ lastCall.called
    /\ \E p \in WalletProfiles, patternList \in PatternInputs,
          recs \in RecommendationInputs, byReference \in BOOLEAN :
          LET w == lastCall.wallet
              positions == lastCall.result
              out == formatWalletAnalysis(p, patternList, positions, recs,
                                          cache[w].activities)
              inCache == /\ byReference
                         /\ cache[w].hasPositions
                         /\ (lastCall.wrote \/ lastCall.before[w].hasPositions)
          IN  /\ report' = out.report
              /\ formatCall' =
                    [ function |-> "formatWalletAnalysis",
                      arguments |-> [ profile |-> p, patterns |-> patternList,
                                      positions |-> positions, recommendations |-> recs,
                                      recentActivities |-> cache[w].activities ],
                      positionsAfter |-> out.positions,
                      cacheBefore |-> cache ]
              /\ cache' = IF inCache
                          THEN [cache EXCEPT ![w].defiPositions = out.positions]
                          ELSE cache
    /\ UNCHANGED <<analyzerVars, now, lastCall, prevCall, lookups>>

\* formatActivityHistory on the activities the cache holds for a wallet
FormatActivityHistory ==
    /\ formatCall.function = "none"
    /\ \E w \in Wallets :
          /\ report' = formatActivityHistory(cache[w].activities, w)
          /\ formatCall' =
                [ function |-> "formatActivityHistory",
                  arguments |-> [activities |-> cache[w].activities, walletAddress |-> w],
                  positionsAfter |-> <<>>,
                  cacheBefore |-> cache ]
    /\ UNCHANGED <<analyzerVars, defiVars, lookups>>

FormatTransactionDetails ==
    /\ formatCall.function = "none"
    /\ \E tx \in TransactionInputs :
          /\ report' = formatTransactionDetails(tx, now)
          /\ formatCall' =
                [ function |-> "formatTransactionDetails",
                  arguments |-> [tx |-> tx],
                  positionsAfter |-> <<>>,
                  cacheBefore |-> cache ]
    /\ UNCHANGED <<analyzerVars, defiVars, lookups>>

NextFormat ==
    \/ AnalyzeBeforeFormat
    \/ FormatWalletAnalysis
    \/ FormatActivityHistory
    \/ FormatTransactionDetails

SpecFormat == InitFormat /\ [][NextFormat]_vars

(***************************************************************************)
(* Properties of the pattern analyzer.  They are stated over the input     *)
(* list itself, not through the operators above.                           *)
(***************************************************************************)
Analyzed == call = "analyzeTransactionPatterns"

CountType(type) == Cardinality({i \in 1..Len(activities) : activities[i].type = type})

PatternTypes == {patterns[i].patternType : i \in 1..Len(patterns)}

\* the timestamps at which the wallet swapped
SwapTimes ==
    {activities[i].timestamp : i \in {j \in 1..Len(activities) : activities[j].type = "Swap"}}

SetMax(S) == CHOOSE x \in S : \A y \in S : y <= x
SetMin(S) == CHOOSE x \in S : \A y \in S : x <= y

\* sum of the squared gaps between timestamp-adjacent swaps (swaps at the
\* same timestamp are 0 apart)
RECURSIVE SquaredGaps(_)
SquaredGaps(times) ==
    IF Cardinality(times) < 2 THEN 0
    ELSE LET hi == SetMax(times)
             rest == times \ {hi}
             d == hi - SetMax(rest)
         IN  d * d + SquaredGaps(rest)

\* populationStandardDeviation / mean < 0.3 over the gaps of at least 3 swaps:
\* with n gaps of sum s and squared sum q, mean = s/n and variance =
\* (n*q - s^2)/n^2, so the test is s > 0 and 100 * (n*q - s^2) < 9 * s^2
SwapsAreRegular ==
    /\ CountType("Swap") >= 3
    /\ LET n == CountType("Swap") - 1
           s == SetMax(SwapTimes) - SetMin(SwapTimes)
           a == n * SquaredGaps(SwapTimes) - s * s
           bound == 9 * s * s
       IN  /\ s > 0
           /\ \/ a < bound \div 100
              \/ a = bound \div 100 /\ bound % 100 > 0

\* the swaps of the list are exactly one at each of the given timestamps
SwapsExactlyAt(times) ==
    /\ SwapTimes = times
    /\ CountType("Swap") = Cardinality(times)

\* C1: an activity list with fewer than 5 entries (the empty list included)
\* is answered with exactly [insufficient_data], confidence 0, whatever the
\* activities are.
C1_InsufficientData ==
    (Analyzed /\ Len(activities) < 5) =>
        patterns = <<[patternType |-> "insufficient_data", confidence |-> 0]>>

C1_Witness ==
    /\ Analyzed
    /\ Len(activities) = 4
    /\ CountType("Staking") = 3
    /\ CountType("Lending") = 1
    /\ \E i \in 1..4 : ~activities[i].success
    /\ PatternTypes = {"insufficient_data"}

\* C2: with at least 5 entries and no detector firing (swaps not regular, no
\* Lending activity, fewer than 3 Staking activities) the result is exactly
\* [general] with confidence 0.5.
C2_GeneralFallback ==
    ( /\ Analyzed
      /\ Len(activities) >= 5
      /\ ~SwapsAreRegular
      /\ CountType("Lending") = 0
      /\ CountType("Staking") < 3 ) =>
        patterns = <<[patternType |-> "general", confidence |-> 5]>>

C2_Witness ==
    /\ Analyzed
    /\ Len(activities) >= 5
    /\ CountType("Swap") >= 3
    /\ CountType("Staking") = 2
    /\ CountType("Transfer") >= 1
    /\ PatternTypes = {"general"}

C4_ZeroMeanGuarded ==
    (Analyzed /\ dcaLocals.evaluated) =>
        /\ dcaLocals.mean.num # 0
        /\ dcaLocals.variationCoefficient.kind # "NaN"

\* C5: with at least 5 entries, lending_active (confidence 0.9) is in the
\* result if and only if some activity has type Lending, successful or not.
C5_LendingIffAny ==
    (Analyzed /\ Len(activities) >= 5) =>
        /\ ("lending_active" \in PatternTypes) <=> (CountType("Lending") >= 1)
        /\ \A i \in 1..Len(patterns) :
              patterns[i].patternType = "lending_active" => patterns[i].confidence = 9

C5_Witness ==
    /\ Analyzed
    /\ Len(activities) >= 5
    /\ CountType("Lending") = 1
    /\ \A i \in 1..Len(activities) :
          activities[i].type = "Lending" => ~activities[i].success
    /\ "lending_active" \in PatternTypes

\* C6: with at least 5 entries, yield_farming (confidence 0.8) is in the
\* result if and only if at least 3 activities have type Staking.
C6_YieldFarmingIffThree ==
    (Analyzed /\ Len(activities) >= 5) =>
        /\ ("yield_farming" \in PatternTypes) <=> (CountType("Staking") >= 3)
        /\ \A i \in 1..Len(patterns) :
              patterns[i].patternType = "yield_farming" => patterns[i].confidence = 8

C6_Witness ==
    /\ Analyzed
    /\ Len(activities) >= 5
    /\ CountType("Staking") = 3
    /\ "yield_farming" \in PatternTypes

\* position of a detected pattern in the detection order
DetectionRank(patternType) ==
    CASE patternType = "dca" -> 1
      [] patternType = "lending_active" -> 2
      [] patternType = "yield_farming" -> 3
      [] OTHER -> 0

\* C7: the result is never empty, holds no pattern type twice, lists the
\* detected patterns in the order dca, lending_active, yield_farming, and
\* holds insufficient_data or general only as its sole element.
C7_ResultShape ==
    Analyzed =>
        /\ Len(patterns) >= 1
        /\ \A i, j \in 1..Len(patterns) :
              i < j => patterns[i].patternType # patterns[j].patternType
        /\ PatternTypes \subseteq
              {"insufficient_data", "general", "dca", "lending_active", "yield_farming"}
        /\ \A i, j \in 1..Len(patterns) :
              i < j => DetectionRank(patterns[i].patternType)
                         < DetectionRank(patterns[j].patternType)
        /\ (PatternTypes \cap {"insufficient_data", "general"} # {}) => Len(patterns) = 1

\* all three detected patterns together
C7_Witness ==
    /\ Analyzed
    /\ Len(patterns) = 3
    /\ PatternTypes = {"dca", "lending_active", "yield_farming"}

(***************************************************************************)
(* Properties of the strategy recommender                                  *)
(***************************************************************************)
Recommended == call = "recommendStrategies"

RecommendedNames ==
    {recommendations.value[i].strategy : i \in 1..Len(recommendations.value)}

\* the candidate pair of a risk profile; anything unrecognized, and no
\* profile at all, counts as moderate
CandidatePair(riskProfile) ==
    CASE riskProfile = "conservative" -> {"Staking SOL", "Liquid Staking"}
      [] riskProfile = "aggressive" -> {"Leveraged Farming", "Perpetual Trading"}
      [] OTHER -> {"Supply Stablecoins", "Diversified LP"}

\* the candidate of each pair that no protocol is mapped to
AlwaysKept == {"Staking SOL", "Diversified LP", "Leveraged Farming"}

\* the address of the protocol mapped to a strategy name
MappedAddress(name) ==
    CASE name = "Liquid Staking" -> "MarBmsSgKXdrN1egZf5sqe1TMai9K1rChYNDJgjq7aD"
      [] name = "Supply Stablecoins" -> "So1endDq2YkqhipRh3WViPa8hdiSpxWy6z3Z6tMCpAo"
      [] name = "Perpetual Trading" -> "mv3ekLzLbnVPNxjSKvqBpU3ZeZXPQdEC3bp5MDEBG68"
      [] OTHER -> "no protocol"

UsesAddress(address) == \E i \in 1..Len(activities) : activities[i].programId = address

\* C8: for the empty activity list the answer is exactly [Start DeFi], for
\* every profile argument.
C8_EmptyGivesBeginner ==
    (Recommended /\ Len(activities) = 0) =>
        /\ ~recommendations.threw
        /\ Len(recommendations.value) = 1
        /\ recommendations.value[1].strategy = "Start DeFi"

C8_Witness ==
    /\ Recommended
    /\ activities = <<>>
    /\ profile = "aggressive"
    /\ RecommendedNames = {"Start DeFi"}

\* C9: for a non-empty list the candidate pair is selected by risk profile;
\* no profile counts as moderate and every value other than the three
\* recognized ones falls back to moderate's pair without an error.
C9_PairByProfile ==
    (Recommended /\ Len(activities) > 0) =>
        /\ ~recommendations.threw
        /\ RecommendedNames \subseteq CandidatePair(profile)
        /\ CandidatePair(profile) \cap AlwaysKept \subseteq RecommendedNames

\* C10: for a non-empty list, a candidate of the selected pair is missing
\* from the returned list if and only if some activity ran the protocol
\* mapped to it; activities without a programId or with "Unknown" exclude
\* nothing.
C10_ExcludedIffUsed ==
    (Recommended /\ Len(activities) > 0 /\ ~recommendations.threw) =>
        \A name \in CandidatePair(profile) :
            (name \notin RecommendedNames) <=> UsesAddress(MappedAddress(name))

\* a conservative wallet that used Marinade, next to activities without a
\* protocol
C10_Witness ==
    /\ Recommended
    /\ profile = "conservative"
    /\ UsesAddress("MarBmsSgKXdrN1egZf5sqe1TMai9K1rChYNDJgjq7aD")
    /\ UsesAddress("Unknown")
    /\ UsesAddress(Absent)
    /\ ~recommendations.threw
    /\ RecommendedNames = {"Staking SOL"}

(***************************************************************************)
(* Further properties of the two analyzers                                 *)
(***************************************************************************)
RecommendedNameSeq ==
    [i \in 1..Len(recommendations.value) |-> recommendations.value[i].strategy]

\* the candidate pair of a risk profile in the order of the table
PairOrder(riskProfile) ==
    CASE riskProfile = "conservative" -> <<"Staking SOL", "Liquid Staking">>
      [] riskProfile = "aggressive" -> <<"Leveraged Farming", "Perpetual Trading">>
      [] OTHER -> <<"Supply Stablecoins", "Diversified LP">>

\* sub is full with some elements left out
RECURSIVE IsSubSequence(_, _)
IsSubSequence(sub, full) ==
    IF Len(sub) = 0 THEN TRUE
    ELSE IF Len(full) = 0 THEN FALSE
    ELSE IF sub[1] = full[1]
         THEN IsSubSequence(SubSeq(sub, 2, Len(sub)), SubSeq(full, 2, Len(full)))
         ELSE IsSubSequence(sub, SubSeq(full, 2, Len(full)))

\* C11: the list returned for a non-empty activity list is an
\* order-preserving sub-list of the selected pair: at most 2 elements, none
\* outside the pair, none twice, in the order of the table.
C11_SubListOfPair ==
    (Recommended /\ Len(activities) > 0 /\ ~recommendations.threw) =>
        /\ Len(recommendations.value) <= 2
        /\ IsSubSequence(RecommendedNameSeq, PairOrder(profile))

\* both candidates kept, for an unrecognized profile
C11_Witness ==
    /\ Recommended
    /\ Len(activities) > 0
    /\ profile = "degen"
    /\ ~recommendations.threw
    /\ Len(recommendations.value) = 2
    /\ recommendations.value[1].strategy = "Supply Stablecoins"
    /\ recommendations.value[2].strategy = "Diversified LP"

FoundEntry == lastCall.before[lastCall.wallet]

\* the latest call found cached positions
CacheHit == lastCall.called /\ FoundEntry.present /\ FoundEntry.hasPositions

SuccessfulFound == SelectSeq(FoundEntry.activities, LAMBDA a : a.success)

\* the latest call derived its result from the activities
Computed == lastCall.called /\ ~CacheHit /\ Len(SuccessfulFound) > 0

OfType(list, type) == SelectSeq(list, LAMBDA x : x.type = type)

RECURSIVE TotalValue(_)
TotalValue(acts) ==
    IF Len(acts) = 0 THEN 0
    ELSE (IF acts[1].value = <<>> THEN 0 ELSE acts[1].value[1])
           + TotalValue(SubSeq(acts, 2, Len(acts)))

ApyWithin(position, lo, hi) ==
    /\ Len(position.apy) = 1
    /\ lo * position.apy[1].den <= position.apy[1].num
    /\ position.apy[1].num <= hi * position.apy[1].den

\* C13: a call that finds a cached position list returns that list, derives
\* nothing from the activities and writes nothing to the cache; so a list,
\* once cached, is what every later call returns while it stays in the cache.
C13_CachedListIsReturned ==
    CacheHit =>
        /\ lastCall.result = FoundEntry.defiPositions
        /\ ~lastCall.wrote
        /\ cache = lastCall.before

\* the cached list is returned although the activities are now all failed
C13_Witness ==
    /\ CacheHit
    /\ FoundEntry.activities = FailedOnly
    /\ Len(lastCall.result) >= 1
    /\ cache = lastCall.before

\* C14: without cached positions and without a successful activity (no
\* entry, no activities or failed ones only) the call returns the empty list
\* and leaves the cache as it was.
C14_NothingSuccessful ==
    (lastCall.called /\ ~CacheHit /\ Len(SuccessfulFound) = 0) =>
        /\ lastCall.result = <<>>
        /\ ~lastCall.wrote
        /\ cache = lastCall.before

C14_Witness ==
    /\ lastCall.called
    /\ FoundEntry.present
    /\ ~FoundEntry.hasPositions
    /\ FoundEntry.activities = FailedOnly
    /\ lastCall.result = <<>>
    /\ ~cache[lastCall.wallet].hasPositions

\* the positions of one type are, one by one and in order, those of the
\* successful activities of that type
OnePerActivity(type, lo, hi) ==
    LET acts == OfType(SuccessfulFound, type)
        pos == OfType(lastCall.result, type)
    IN  /\ Len(pos) = Len(acts)
        /\ \A i \in 1..Len(pos) :
              /\ pos[i].tokenA = acts[i].token
              /\ pos[i].value = acts[i].value
              /\ pos[i].timestamp = acts[i].timestamp
              /\ pos[i].protocol = identifyProtocol(acts[i].programId)
              /\ ApyWithin(pos[i], lo, hi)

Structure(position) ==
    [ protocol |-> position.protocol, type |-> position.type,
      tokenA |-> position.tokenA, value |-> position.value,
      timestamp |-> position.timestamp ]

StructureOf(list) == [i \in 1..Len(list) |-> Structure(list[i])]

\* every apy lies in the range of its position type; the two trading
\* positions carry none
ApysInRange(list) ==
    \A i \in 1..Len(list) :
        CASE list[i].type = "Staking" -> ApyWithin(list[i], 50, 80)
          [] list[i].type = "Lending" -> ApyWithin(list[i], 30, 70)
          [] list[i].type = "Liquidity" -> ApyWithin(list[i], 80, 120)
          [] OTHER -> list[i].apy = <<>>

BothCalled == prevCall.called /\ lastCall.called

\* the positions that do not depend on the time of evaluation
ClockFree(list) ==
    SelectSeq(list, LAMBDA x : x.type \notin {"Trading", "Trading Statistics"})

\* the Trading Statistics positions without their timestamp
Statistics(list) ==
    LET stat == OfType(list, "Trading Statistics")
    IN  [i \in 1..Len(stat) |-> [ protocol |-> stat[i].protocol,
                                  tokenA |-> stat[i].tokenA,
                                  value |-> stat[i].value ]]

RecentSet ==
    SelectSeq(SuccessfulFound,
              LAMBDA a : /\ \/ a.type = "Swap"
                            \/ a.programId = "FLUXubRmkEi2q6K3Y9kBPg9248ggaZVsoSFhtJHSrm1X"
                         /\ lastCall.at - a.timestamp < 86400000)

\* C18: a computed result holds one Trading position {FLUXBEAM} when the
\* recent set is not empty, with the sum of its values (absent as 0) and the
\* latest of its timestamps, and none when it is empty; no result holds more
\* than one.
C18_OneTradingPosition ==
    Computed =>
        LET trading == OfType(lastCall.result, "Trading")
        IN  IF Len(RecentSet) = 0 THEN Len(trading) = 0
            ELSE /\ Len(trading) = 1
                 /\ trading[1].protocol = "FLUXBEAM"
                 /\ trading[1].value = <<TotalValue(RecentSet)>>
                 /\ \E i \in 1..Len(RecentSet) :
                       trading[1].timestamp = RecentSet[i].timestamp
                 /\ \A i \in 1..Len(RecentSet) :
                       trading[1].timestamp >= RecentSet[i].timestamp

\* a swap without value and a FLUXBEAM transfer are recent, older swaps not
C18_Witness ==
    /\ Computed
    /\ FoundEntry.activities = Mixed
    /\ Len(RecentSet) = 2
    /\ Len(OfType(SuccessfulFound, "Swap")) > 1
    /\ OfType(lastCall.result, "Trading")[1].value = <<7>>

SuccessfulSwaps == OfType(SuccessfulFound, "Swap")

\* C19: a computed result ends with the one position {Aggregate, Trading
\* Statistics, Multiple, sum of the values of all successful Swaps} exactly
\* when there is a successful Swap; FLUXBEAM activities of other types do not
\* count.
C19_AggregateIffSwap ==
    Computed =>
        LET stat == OfType(lastCall.result, "Trading Statistics")
            n == Len(lastCall.result)
        IN  IF Len(SuccessfulSwaps) = 0 THEN Len(stat) = 0
            ELSE /\ Len(stat) = 1
                 /\ lastCall.result[n].type = "Trading Statistics"
                 /\ lastCall.result[n].protocol = "Aggregate"
                 /\ lastCall.result[n].tokenA = "Multiple"
                 /\ lastCall.result[n].value = <<TotalValue(SuccessfulSwaps)>>

\* a FLUXBEAM transfer alone: a Trading position but no statistics
C19_Witness ==
    /\ Computed
    /\ FoundEntry.activities = FluxbeamOnly
    /\ Len(OfType(lastCall.result, "Trading")) = 1
    /\ Len(OfType(lastCall.result, "Trading Statistics")) = 0

\* C20: a call that computes writes the list it returns to the wallet's
\* cache entry, an empty list too, keeps the entry's other fields and leaves
\* the entries of other wallets alone.
C20_ComputedListIsCached ==
    Computed =>
        /\ lastCall.wrote
        /\ cache[lastCall.wallet].hasPositions
        /\ cache[lastCall.wallet].defiPositions = lastCall.result
        /\ cache[lastCall.wallet].present
        /\ cache[lastCall.wallet].activities = FoundEntry.activities
        /\ cache[lastCall.wallet].profile = FoundEntry.profile
        /\ \A w \in Wallets \ {lastCall.wallet} : cache[w] = lastCall.before[w]

\* an empty computed list is cached beside another wallet's entry
C20_Witness ==
    /\ Computed
    /\ lastCall.result = <<>>
    /\ cache[lastCall.wallet].hasPositions
    /\ cache[lastCall.wallet].defiPositions = <<>>
    /\ cache[lastCall.wallet].activities = NoPositions
    /\ cache["walletB"].present

\* the successful account creations on Raydium or Orca
PoolCreations ==
    SelectSeq(SuccessfulFound,
              LAMBDA a : /\ a.type = "Account Creation"
                         /\ a.programId \in
                               { "675kPX9MHTjS2zt1qfr1NYHuzeLXfQM9H24wFSUt1Mp8",
                                 "9W959DqEETiGZocYWCQPaJ6sBmUzgfxXfqGeTEdp3aQP" })

\* C21: a computed result holds one Liquidity position, with an apy in
\* [8.0, 12.0], for each successful activity that is an Account Creation on
\* RAYDIUM_SWAP or ORCA_SWAP, and for no other activity.
C21_LiquidityIffPoolCreation ==
    Computed =>
        LET liquidity == OfType(lastCall.result, "Liquidity")
        IN  /\ Len(liquidity) = Len(PoolCreations)
            /\ \A i \in 1..Len(liquidity) :
                  /\ liquidity[i].protocol =
                        (IF PoolCreations[i].programId =
                              "675kPX9MHTjS2zt1qfr1NYHuzeLXfQM9H24wFSUt1Mp8"
                         THEN "RAYDIUM_SWAP" ELSE "ORCA_SWAP")
                  /\ liquidity[i].value = PoolCreations[i].value
                  /\ liquidity[i].timestamp = PoolCreations[i].timestamp
                  /\ ApyWithin(liquidity[i], 80, 120)

\* an Orca and a Raydium pool; a failed one and one on Mango give nothing
C21_Witness ==
    /\ Computed
    /\ FoundEntry.activities = Pools
    /\ Len(OfType(lastCall.result, "Liquidity")) = 2
    /\ lastCall.result[1].protocol = "ORCA_SWAP"
    /\ lastCall.result[2].protocol = "RAYDIUM_SWAP"
    /\ lastCall.result[2].apy[1].num > 80 * RandomSteps

(***************************************************************************)
(* Properties of the formatters                                            *)
(***************************************************************************)
WalletRendered == formatCall.function = "formatWalletAnalysis"

\* C22: formatWalletAnalysis modifies none of its arguments: the positions
\* list has the same elements in the same order after the call as before,
\* and a list held in the wallet cache is not changed by the rendering.
C22_RenderingIsReadOnly ==
    WalletRendered =>
        /\ formatCall.positionsAfter = formatCall.arguments.positions
        /\ cache = formatCall.cacheBefore

TransactionRendered == formatCall.function = "formatTransactionDetails"

\* the tier the rendered report names
RenderedComplexity == report[4][2].args[1]

\* C23: the tier of a rendered transaction follows from its number of
\* programs, whatever that number is: Simple for 1 and for nothing else,
\* Moderate for 2 or 3 and for nothing else, Complex for more than 3 and for
\* nothing else.
C23_ComplexityByProgramCount ==
    TransactionRendered =>
        LET programCount == Len(formatCall.arguments.tx.programIds)
        IN  /\ RenderedComplexity = "Simple (Single Program)" <=> programCount = 1
            /\ RenderedComplexity = "Moderate (2-3 Programs)" <=> programCount \in {2, 3}
            /\ RenderedComplexity = "Complex (Multiple Programs)" <=> programCount > 3

\* the lines of the rendered report that start with the given label
LinesOf(text) ==
    { <<i, j>> \in (1..Len(report)) \X (1..12) :
        j <= Len(report[i]) /\ report[i][j].text = text }

\* the value interpolated into the only line with that label
ValueOf(text) ==
    LET at == CHOOSE ij \in LinesOf(text) : TRUE
    IN  report[at[1]][at[2]].args[1]

\* C24: the risk section names one concentration tier and one frequency
\* tier: HIGH below a diversification of 30, MEDIUM from 30 to 59, LOW from
\* 60; HIGH above 100 activities, MEDIUM from 51 to 100, LOW up to 50.
C24_RiskTiers ==
    WalletRendered =>
        LET p == formatCall.arguments.profile
            d == p.portfolioDiversification
            c == p.activityCount
        IN  /\ Cardinality(LinesOf("- Portfolio Concentration: {concentrationRisk}")) = 1
            /\ Cardinality(LinesOf("- Trading Frequency: {tradingFrequency}")) = 1
            /\ ValueOf("- Portfolio Concentration: {concentrationRisk}") =
                  (CASE d < 30 -> "(warning) HIGH"
                     [] d >= 30 /\ d <= 59 -> "(high voltage) MEDIUM"
                     [] d >= 60 -> "(check mark) LOW")
            /\ ValueOf("- Trading Frequency: {tradingFrequency}") =
                  (CASE c > 100 -> "(arrows) HIGH"
                     [] c >= 51 /\ c <= 100 -> "(high voltage) MEDIUM"
                     [] c <= 50 -> "(turtle) LOW")

\* both values on the lower edge of MEDIUM
C24_Witness ==
    /\ WalletRendered
    /\ formatCall.arguments.profile.portfolioDiversification = 30
    /\ formatCall.arguments.profile.activityCount = 51
    /\ ValueOf("- Portfolio Concentration: {concentrationRisk}") = "(high voltage) MEDIUM"
    /\ ValueOf("- Trading Frequency: {tradingFrequency}") = "(high voltage) MEDIUM"

\* the report has a section under that heading, and when the list is empty
\* the section is the heading and the sentence
SectionOf(heading, list, sentence) ==
    \E i \in 1..Len(report) :
        /\ Len(report[i]) >= 2
        /\ report[i][1].text = heading
        /\ Len(list) = 0 => (Len(report[i]) = 2 /\ report[i][2].text = sentence)

\* C25: formatWalletAnalysis always writes the Behavioral Patterns, Active
\* DeFi Positions and Strategy Recommendations sections, each with its
\* sentence for an empty list, and formatActivityHistory of an empty list
\* returns the report that says that no transaction history was found.
C25_EmptyIsRendered ==
    /\ WalletRendered =>
          /\ SectionOf("## Behavioral Patterns", formatCall.arguments.patterns,
                       "No significant transaction patterns detected.")
          /\ SectionOf("## Active DeFi Positions", formatCall.arguments.positions,
                       "No active DeFi positions detected.")
          /\ SectionOf("## Strategy Recommendations", formatCall.arguments.recommendations,
                       "No strategy recommendations available.")
    /\ (formatCall.function = "formatActivityHistory"
          /\ Len(formatCall.arguments.activities) = 0) =>
          /\ Cardinality(LinesOf("# Wallet Activity Report")) = 1
          /\ Cardinality(LinesOf("No transaction history found for this wallet.")) = 1

\* a wallet report with no pattern, no position and no recommendation
C25_Witness ==
    /\ WalletRendered
    /\ formatCall.arguments.patterns = <<>>
    /\ formatCall.arguments.positions = <<>>
    /\ formatCall.arguments.recommendations = <<>>
    /\ Cardinality(LinesOf("No significant transaction patterns detected.")) = 1
    /\ Cardinality(LinesOf("No active DeFi positions detected.")) = 1
    /\ Cardinality(LinesOf("No strategy recommendations available.")) = 1

====
